---- MODULE Spec2Model ----
(***************************************************************************)
(* A model of the crystal symmetry engine of chmpy:                        *)
(*   src/shmolecule/space_group.py  (symmetry operations, space groups)    *)
(*   src/shmolecule/crystal.py      (unit cell atoms, bonding, molecules)  *)
(*                                                                         *)
(* Numbers.  A translation or fractional coordinate is an integer count of *)
(* 1/Den, so 1/12 is Den \div 12 and "mod 1" is "% Den".  A rotation is a  *)
(* tuple of three rows of three integers.                                  *)
(***************************************************************************)
EXTENDS Integers, Sequences, FiniteSets, TLC

VARIABLES
    pc,            \* the step the running scenario is at
    rotation,      \* codec scenario: the rotation handed to encode_symm_int
    translation,   \* codec scenario: the translation handed to encode_symm_int
    coded,         \* codec scenario: the integer encode_symm_int returned
    decoded,       \* codec scenario: what decode_symm_int returned for it
    op,            \* symmetry operation scenario: the SymmetryOperation object
    made_by,       \* symmetry operation scenario: the call that made op
    cmp,           \* symmetry operation scenario: result of the last comparison
    space_group,   \* space group scenario: the SpaceGroup object in hand
    symops,        \* space group scenario: the caller's list of operations
    sg_call,       \* space group scenario: the last call and its arguments
    found,         \* space group scenario: what the last identification gave
    expanded,      \* space group scenario: the list expanded_symmetry_list gave
    shelx,         \* space group scenario: the SHELX record that was written
    crystal,       \* crystal scenario: the Crystal object with its cached tables
    cr_call,       \* crystal scenario: the last method called and its arguments
    returned,      \* crystal scenario: what that call returned
    unitcell       \* unit cell scenario: the UnitCell object

codecVars == <<rotation, translation, coded, decoded>>
symVars == <<op, made_by, cmp>>
sgVars == <<space_group, symops, sg_call, found, expanded, shelx>>
crystalVars == <<crystal, cr_call, returned>>
cellVars == <<unitcell>>
vars == <<pc, codecVars, symVars, sgVars, crystalVars, cellVars>>

\* Python's None: for a variable holding an object, a list or an integer
None == [none |-> TRUE]
NoList == <<>>
NoInt == 0 - 1
\* an unset cached attribute is <<>>, a set one <<value>>
Unset == <<>>

(***************************************************************************)
(* Number representation                                                   *)
(***************************************************************************)
Twelve == 12
Den == 2 * Twelve                 \* grid of the model: 1/24
TwelfthUnit == Den \div Twelve    \* 1/12 in grid units

Range3 == 1..3

Abs(x) == IF x < 0 THEN -x ELSE x

\* Python's and numpy's % with a positive modulus: the result is in [0, m)
PyMod(a, m) == a % m

\* numpy.round (round half to even) of the fraction n/d, d > 0
NpRound(n, d) ==
    LET q == n \div d
        r == n % d
    IN  IF 2 * r < d THEN q
        ELSE IF 2 * r > d THEN q + 1
        ELSE IF q % 2 = 0 THEN q ELSE q + 1

RECURSIVE Pow(_, _)
Pow(b, e) == IF e = 0 THEN 1 ELSE b * Pow(b, e - 1)

RECURSIVE SumSeq(_)
SumSeq(s) == IF s = <<>> THEN 0 ELSE Head(s) + SumSeq(Tail(s))

IdentityRotation == << <<1, 0, 0>>, <<0, 1, 0>>, <<0, 0, 1>> >>
ZeroTranslation == <<0, 0, 0>>

NegRotation(rot) == [i \in Range3 |-> [j \in Range3 |-> -rot[i][j]]]
NegVector(v) == [i \in Range3 |-> -v[i]]
AddVector(v, w) == [i \in Range3 |-> v[i] + w[i]]
SubVector(v, w) == [i \in Range3 |-> v[i] - w[i]]
Mod1(v) == [i \in Range3 |-> PyMod(v[i], Den)]

(***************************************************************************)
(* encode_symm_int / decode_symm_int                                       *)
(***************************************************************************)
NineDigits == 19683     \* 3**9
TopRotationShift == 6561   \* 3**8
TopTranslationShift == 144 \* 12**2

\* the weight of rotation[i][j]: the loops run i, j over (2, 1, 0) with
\* shift *= 3, so the last entry has weight 1 and the first 3**8
RotationShift(i, j) == Pow(3, 8 - (3 * (i - 1) + (j - 1)))
TranslationShift(i) == Pow(Twelve, 3 - i)

\* np.round(translation * 12).astype(int), component i
TranslationDigit(trans, i) == NpRound(trans[i] * Twelve, Den)

encode_symm_int(rot, trans) ==
    LET r == SumSeq([k \in 1..9 |->
                 LET i == ((k - 1) \div 3) + 1
                     j == ((k - 1) % 3) + 1
                 IN  (rot[i][j] + 1) * RotationShift(i, j)])
        t == SumSeq([i \in Range3 |-> TranslationDigit(trans, i) * TranslationShift(i)])
    IN  r + t * NineDigits

decode_symm_int_swapped(coded_integer) ==
    LET r == coded_integer % NineDigits
        t == coded_integer \div NineDigits
        rot == [i \in Range3 |-> [j \in Range3 |->
                  LET shift == TopRotationShift \div Pow(3, 3 * (i - 1) + (j - 1))
                  IN  ((r % (shift * 3)) \div shift) - 1]]
        trans == [i \in Range3 |->
                  LET shift == Pow(Twelve, i - 1)
                  IN  ((t % (shift * Twelve)) \div shift) * TwelfthUnit]
    IN  [rotation |-> rot, translation |-> trans]

decode_symm_int(coded_integer) ==
    LET r == coded_integer % NineDigits
        t == coded_integer \div NineDigits
        rot == [i \in Range3 |-> [j \in Range3 |->
                  LET shift == TopRotationShift \div Pow(3, 3 * (i - 1) + (j - 1))
                  IN  ((r % (shift * 3)) \div shift) - 1]]
        trans == [i \in Range3 |->
                  LET shift == TopTranslationShift \div Pow(Twelve, i - 1)
                  IN  ((t % (shift * Twelve)) \div shift) * TwelfthUnit]
    IN  [rotation |-> rot, translation |-> trans]

(***************************************************************************)
(* Strings.  A Python str is a sequence of one-character strings.          *)
(***************************************************************************)
Digits == {"0", "1", "2", "3", "4", "5", "6", "7", "8", "9"}
DigitValue(c) ==
    CASE c = "0" -> 0 [] c = "1" -> 1 [] c = "2" -> 2 [] c = "3" -> 3
      [] c = "4" -> 4 [] c = "5" -> 5 [] c = "6" -> 6 [] c = "7" -> 7
      [] c = "8" -> 8 [] c = "9" -> 9

\* str.lower() on the alphabet of the model
LowerChar(c) ==
    CASE c = "X" -> "x" [] c = "Y" -> "y" [] c = "Z" -> "z" [] OTHER -> c
Lower(s) == [k \in 1..Len(s) |-> LowerChar(s[k])]

\* str.replace(" ", "")
RemoveSpaces(s) == SelectSeq(s, LAMBDA c : c # " ")

\* "sub in s" for a one-character sub, and for a two-character sub
HasChar(s, c) == \E k \in 1..Len(s) : s[k] = c
HasPair(s, c, d) == \E k \in 1..(Len(s) - 1) : s[k] = c /\ s[k + 1] = d

\* the first index >= p of s whose character is not in chars, Len(s) + 1 if none
RECURSIVE SkipWhile(_, _, _)
SkipWhile(s, p, chars) ==
    IF p > Len(s) \/ s[p] \notin chars THEN p ELSE SkipWhile(s, p + 1, chars)

\* the first index of s holding character c, Len(s) + 1 if none
RECURSIVE IndexOf(_, _, _)
IndexOf(s, p, c) ==
    IF p > Len(s) \/ s[p] = c THEN p ELSE IndexOf(s, p + 1, c)

\* str.split(sep) for a one-character separator
RECURSIVE Split(_, _)
Split(s, sep) ==
    LET e == IndexOf(s, 1, sep)
    IN  IF e > Len(s) THEN <<s>>
        ELSE <<SubSeq(s, 1, e - 1)>> \o Split(SubSeq(s, e + 1, Len(s)), sep)

(***************************************************************************)
(* SYMM_STR_SYMBOL_REGEX = r".*?([+-]*[xyz0-9\/\.]+)" and re.findall       *)
(***************************************************************************)
SignChars == {"+", "-"}
SymbolChars == {"x", "y", "z", "/", "."} \cup Digits
IsSignChar(c) == c \in SignChars
IsSymbolChar(c) == c \in SymbolChars

\* a match of the group can start at s: a run of signs and then at least
\* one symbol character
GroupStartsAt(row, s) ==
    LET e == SkipWhile(row, s, SignChars)
    IN  e <= Len(row) /\ IsSymbolChar(row[e])

\* re.findall from position p on: the lazy prefix skips to the first position
\* a group can start at, the group is greedy, the search goes on after it
RECURSIVE FindAllFrom(_, _)
FindAllFrom(row, p) ==
    LET starts == {s \in p..Len(row) : GroupStartsAt(row, s)}
    IN  IF starts = {} THEN <<>>
        ELSE LET s == CHOOSE x \in starts : \A y \in starts : x <= y
                 e == SkipWhile(row, s, SignChars)
                 f == SkipWhile(row, e, SymbolChars)
             IN  <<SubSeq(row, s, f - 1)>> \o FindAllFrom(row, f)

FindAllSymbols(row) == FindAllFrom(row, 1)

(***************************************************************************)
(* fractions.Fraction(str) for the strings decode_symm_str hands it: an    *)
(* optional sign, digits, an optional point and digits, at least one digit *)
(* A value is [num, den]; anything else raises ValueError.                 *)
(***************************************************************************)
ValueError == [error |-> "ValueError"]
IndexError == [error |-> "IndexError"]
ZeroDivisionError == [error |-> "ZeroDivisionError"]
KeyError == [error |-> "KeyError"]
IsError(v) == "error" \in DOMAIN v

RECURSIVE DigitsValue(_)
DigitsValue(s) ==
    IF s = <<>> THEN 0 ELSE 10 * DigitsValue(SubSeq(s, 1, Len(s) - 1)) + DigitValue(s[Len(s)])

ParseFraction(s) ==
    LET signed == s # <<>> /\ IsSignChar(s[1])
        body == IF signed THEN Tail(s) ELSE s
        sign == IF signed /\ s[1] = "-" THEN -1 ELSE 1
        e == SkipWhile(body, 1, Digits)
        intpart == SubSeq(body, 1, e - 1)
        pointed == e <= Len(body) /\ body[e] = "."
        frac == IF pointed THEN SubSeq(body, e + 1, Len(body)) ELSE <<>>
        wellformed ==
            /\ \A k \in 1..Len(frac) : frac[k] \in Digits
            /\ (pointed \/ e > Len(body))
            /\ (intpart # <<>> \/ frac # <<>>)
    IN  IF ~wellformed THEN ValueError
        ELSE [num |-> sign * (DigitsValue(intpart) * Pow(10, Len(frac)) + DigitsValue(frac)),
              den |-> Pow(10, Len(frac))]

\* a rational as a float on the grid of the model
ToGrid(num, den) == NpRound(num * Den, den)

(***************************************************************************)
(* decode_symm_str                                                         *)
(***************************************************************************)
ZeroRotation == [i \in Range3 |-> [j \in Range3 |-> 0]]

\* one symbol of row i applied to the (rotation, translation) built so far
ApplySymbol(acc, i, symbol) ==
    IF IsError(acc) THEN acc
    ELSE IF HasChar(symbol, "x") \/ HasChar(symbol, "y") \/ HasChar(symbol, "z") THEN
        LET idx == IF HasChar(symbol, "x") THEN 1
                   ELSE IF HasChar(symbol, "y") THEN 2 ELSE 3
            var == IF idx = 1 THEN "x" ELSE IF idx = 2 THEN "y" ELSE "z"
            fac == IF HasPair(symbol, "-", var) THEN -1 ELSE 1
        IN  IF i > 3 THEN IndexError
            ELSE [acc EXCEPT !.rotation[i][idx] = fac]
    ELSE IF HasChar(symbol, "/") THEN
        LET parts == Split(symbol, "/")
            n == ParseFraction(parts[1])
            d == ParseFraction(parts[2])
        IN  IF Len(parts) # 2 THEN ValueError
            ELSE IF IsError(n) \/ IsError(d) THEN ValueError
            ELSE IF d.num = 0 THEN ZeroDivisionError
            ELSE IF i > 3 THEN IndexError
            ELSE [acc EXCEPT !.translation[i] = ToGrid(n.num * d.den, n.den * d.num)]
    ELSE
        LET v == ParseFraction(symbol)
        IN  IF IsError(v) THEN ValueError
            ELSE IF i > 3 THEN IndexError
            ELSE [acc EXCEPT !.translation[i] = @ + ToGrid(v.num, v.den)]

RECURSIVE ApplySymbols(_, _, _)
ApplySymbols(acc, i, symbols) ==
    IF symbols = <<>> THEN acc
    ELSE ApplySymbols(ApplySymbol(acc, i, Head(symbols)), i, Tail(symbols))

RECURSIVE ApplyRows(_, _, _)
ApplyRows(acc, i, rows) ==
    IF i > Len(rows) THEN acc
    ELSE ApplyRows(ApplySymbols(acc, i, FindAllSymbols(rows[i])), i + 1, rows)

decode_symm_str(s) ==
    LET tokens == Split(RemoveSpaces(Lower(s)), ",")
        res == ApplyRows([rotation |-> ZeroRotation, translation |-> ZeroTranslation],
                         1, tokens)
    IN  IF IsError(res) THEN res
        ELSE [rotation |-> res.rotation, translation |-> Mod1(res.translation)]

(***************************************************************************)
(* encode_symm_str                                                         *)
(***************************************************************************)
DigitChar(d) == CHOOSE c \in Digits : DigitValue(c) = d
\* str(n) for 0 <= n < 100
NatStr(n) == IF n < 10 THEN <<DigitChar(n)>> ELSE <<DigitChar(n \div 10), DigitChar(n % 10)>>

RECURSIVE Gcd(_, _)
Gcd(a, b) == IF b = 0 THEN a ELSE Gcd(b, a % b)

\* Fraction(t).limit_denominator(12) for a grid value t in [0, 1]: the
\* fraction in lowest terms with denominator <= 12 that is closest to t
LowestTerms == {f \in [num : 0..Twelve, den : 1..Twelve] : f.num <= f.den /\ Gcd(f.num, f.den) = 1}
FractionError(f, t) == Abs(f.num * Den - t * f.den)
limit_denominator(t) ==
    CHOOSE f \in LowestTerms :
        \A g \in LowestTerms :
            \/ FractionError(f, t) * g.den < FractionError(g, t) * f.den
            \/ /\ FractionError(f, t) * g.den = FractionError(g, t) * f.den
               /\ g.den <= f.den

\* str(Fraction)
FractionStr(f) == IF f.den = 1 THEN NatStr(f.num) ELSE NatStr(f.num) \o <<"/">> \o NatStr(f.den)

AxisSymbols == <<"x", "y", "z">>
RotationTerm(c, j) ==
    IF c = 0 THEN <<>> ELSE <<IF c < 0 THEN "-" ELSE "+", AxisSymbols[j]>>

\* the string v built for row i
EncodeRow(rot, trans, i) ==
    (IF limit_denominator(trans[i]).num # 0 THEN FractionStr(limit_denominator(trans[i]))
     ELSE <<>>)
        \o RotationTerm(rot[i][1], 1) \o RotationTerm(rot[i][2], 2)
        \o RotationTerm(rot[i][3], 3)

encode_symm_str(rot, trans) ==
    EncodeRow(rot, trans, 1) \o <<",">> \o EncodeRow(rot, trans, 2) \o <<",">>
        \o EncodeRow(rot, trans, 3)

(***************************************************************************)
(* class SymmetryOperation.  cached_code is the _integer_code attribute:   *)
(* None until integer_code is first read, or set by from_integer_code;     *)
(* string_code is the _string_code attribute, set by from_string_code.     *)
(***************************************************************************)
IdentityCode == 16484

SymmetryOperation_nomod(rot, trans) ==
    [rotation |-> rot, translation |-> trans, cached_code |-> Unset,
     string_code |-> Unset]

\* __init__
SymmetryOperation(rot, trans) ==
    [rotation |-> rot, translation |-> Mod1(trans), cached_code |-> Unset,
     string_code |-> Unset]

\* the integer_code property: its value, and the object after the read
integer_code(s) ==
    IF s.cached_code = Unset THEN encode_symm_int(s.rotation, s.translation)
    ELSE s.cached_code[1]
AfterCodeRead(s) == [s EXCEPT !.cached_code = <<integer_code(s)>>]

inverted(s) == SymmetryOperation(NegRotation(s.rotation), NegVector(s.translation))

\* __add__ and __sub__
sym_add(s, value) == SymmetryOperation(s.rotation, AddVector(s.translation, value))
sym_sub(s, value) == SymmetryOperation(s.rotation, SubVector(s.translation, value))

\* apply to one fractional position: rotation . p + translation, no wrapping
apply(s, p) ==
    [i \in Range3 |-> s.rotation[i][1] * p[1] + s.rotation[i][2] * p[2]
                      + s.rotation[i][3] * p[3] + s.translation[i]]

sym_eq_by_matrix(a, b) == a.rotation = b.rotation /\ a.translation = b.translation

\* __lt__, __eq__, __hash__
sym_lt(a, b) == integer_code(a) < integer_code(b)
sym_eq(a, b) == integer_code(a) = integer_code(b)
sym_hash(a) == integer_code(a)

from_integer_code(code) ==
    LET d == decode_symm_int(code)
    IN  [SymmetryOperation(d.rotation, d.translation) EXCEPT !.cached_code = <<code>>]

\* from_string_code: the operation, or the error decode_symm_str raised
from_string_code(code) ==
    LET d == decode_symm_str(code)
    IN  IF IsError(d) THEN d
        ELSE [SymmetryOperation(d.rotation, d.translation) EXCEPT !.string_code = <<code>>]

\* __str__ (and cif_form)
sym_str(s) ==
    IF s.string_code = Unset THEN encode_symm_str(s.rotation, s.translation)
    ELSE s.string_code[1]

\* a test on the rotation alone
is_identity_by_rotation(s) == s.rotation = IdentityRotation

is_identity(s) == integer_code(s) = IdentityCode
identity == from_integer_code(IdentityCode)

\* "x in list" and list.index for lists of SymmetryOperation use __eq__
InList(s, list) == \E k \in 1..Len(list) : sym_eq(list[k], s)

(***************************************************************************)
(* LATTICE_TYPE_TRANSLATIONS                                               *)
(***************************************************************************)
Half == Den \div 2
Third == Den \div 3
LATTICE_TYPE_TRANSLATIONS ==
    [k \in 1..7 |->
        CASE k = 1 -> <<>>
          [] k = 2 -> << <<Half, Half, Half>> >>
          [] k = 3 -> << <<2 * Third, Third, Third>>, <<Third, 2 * Third, 2 * Third>> >>
          [] k = 4 -> << <<0, Half, Half>>, <<Half, 0, Half>>, <<Half, Half, 0>> >>
          [] k = 5 -> << <<0, Half, Half>> >>
          [] k = 6 -> << <<Half, 0, Half>> >>
          [] k = 7 -> << <<Half, Half, 0>> >>]

(***************************************************************************)
(* The space group reference table (sgdata.json).  Each entry holds the    *)
(* fields of _sgdata the model reads; symops is the full operation list as *)
(* integer codes in ascending order, which is also the signature           *)
(* from_symmetry_operations looks up.  The table below lists the settings  *)
(* the scenarios draw from, in the order of the file.                      *)
(***************************************************************************)
SgTable ==
  <<[number |-> 1, short |-> "P1", choice |-> "", centering |-> "primitive",
     symops |-> <<16484>>,
     centrosymmetric |-> FALSE],
    [number |-> 2, short |-> "P-1", choice |-> "", centering |-> "primitive",
     symops |-> <<3198, 16484>>,
     centrosymmetric |-> TRUE],
    [number |-> 4, short |-> "P21", choice |-> "", centering |-> "primitive",
     symops |-> <<16484, 1420536>>,
     centrosymmetric |-> FALSE],
    [number |-> 5, short |-> "C2", choice |-> "", centering |-> "cface",
     symops |-> <<3360, 16484, 18426648, 18439772>>,
     centrosymmetric |-> FALSE],
    [number |-> 14, short |-> "P21/c", choice |-> "", centering |-> "primitive",
     symops |-> <<3198, 16484, 1538634, 1551596>>,
     centrosymmetric |-> TRUE],
    [number |-> 15, short |-> "C2/c", choice |-> "", centering |-> "cface",
     symops |-> <<3198, 16484, 121458, 134420, 18426486, 18439772, 18544746,
                  18557708>>,
     centrosymmetric |-> TRUE],
    [number |-> 22, short |-> "F222", choice |-> "", centering |-> "face",
     symops |-> <<3200, 3360, 16320, 16484, 1538474, 1538634, 1551594, 1551758,
                  17127410, 17127570, 17140530, 17140694, 18426488, 18426648,
                  18439608, 18439772>>,
     centrosymmetric |-> FALSE],
    [number |-> 23, short |-> "I222", choice |-> "", centering |-> "body",
     symops |-> <<3200, 3360, 16320, 16484, 18544586, 18544746, 18557706,
                  18557870>>,
     centrosymmetric |-> FALSE],
    [number |-> 38, short |-> "Amm2", choice |-> "", centering |-> "aface",
     symops |-> <<3200, 3362, 16322, 16484, 1538474, 1538636, 1551596, 1551758>>,
     centrosymmetric |-> FALSE],
    [number |-> 146, short |-> "R3", choice |-> "H", centering |-> "rcenter",
     symops |-> <<5225, 7817, 16484, 13389665, 13392257, 13400924, 23703557,
                  23706149, 23714816>>,
     centrosymmetric |-> FALSE],
    [number |-> 146, short |-> "R3", choice |-> "R", centering |-> "primitive",
     symops |-> <<10816, 12064, 16484>>,
     centrosymmetric |-> FALSE],
    [number |-> 148, short |-> "R-3", choice |-> "H", centering |-> "rcenter",
     symops |-> <<3198, 5225, 7817, 11865, 14457, 16484, 13387638, 13389665,
                  13392257, 13396305, 13398897, 13400924, 23701530, 23703557,
                  23706149, 23710197, 23712789, 23714816>>,
     centrosymmetric |-> TRUE]>>

TableIndex == 1..Len(SgTable)
TableNumbers == {SgTable[k].number : k \in TableIndex}

\* SG_FROM_NUMBER[str(number)]: the settings of one number, in table order
SG_FROM_NUMBER(number) == SelectSeq(SgTable, LAMBDA x : x.number = number)

\* SG_FROM_SYMOPS: keyed by tuple(x.symops); a later entry with the same key
\* replaces an earlier one
SG_FROM_SYMOPS_keys == {SgTable[k].symops : k \in TableIndex}
SG_FROM_SYMOPS(encoded) ==
    SgTable[CHOOSE k \in TableIndex :
                /\ SgTable[k].symops = encoded
                /\ \A m \in TableIndex : SgTable[m].symops = encoded => m <= k]


(***************************************************************************)
(* expanded_symmetry_list / reduced_symmetry_list.  Lists hold             *)
(* SymmetryOperation objects; membership goes through __eq__, that is the  *)
(* integer code.  Reading a code fills an operation's cache and changes    *)
(* nothing else, so the lists below keep the objects as they were made.    *)
(***************************************************************************)
\* reduced_symops after "if identity not in reduced_symops: append"
WithIdentity(reduced_symops) ==
    IF InList(identity, reduced_symops) THEN reduced_symops
    ELSE Append(reduced_symops, identity)

\* the copies in the reverse order of the table
CenteringCopies_reversed(symop, translations) ==
    <<symop>> \o [k \in 1..Len(translations) |->
                    sym_add(symop, translations[Len(translations) + 1 - k])]

\* symop followed by symop + t for each centering translation
CenteringCopies(symop, translations) ==
    <<symop>> \o [k \in 1..Len(translations) |-> sym_add(symop, translations[k])]

RECURSIVE ExpandCentering(_, _)
ExpandCentering(symops_list, translations) ==
    IF symops_list = <<>> THEN <<>>
    ELSE CenteringCopies(Head(symops_list), translations)
             \o ExpandCentering(Tail(symops_list), translations)

InvertedList(symops_list) ==
    [k \in 1..Len(symops_list) |-> inverted(symops_list[k])]

\* full_symops without the "if lattice_type > 0" block
expanded_symmetry_list_noinv(reduced_symops, lattice_type) ==
    IF Abs(lattice_type) \notin DOMAIN LATTICE_TYPE_TRANSLATIONS THEN KeyError
    ELSE [full_symops |-> ExpandCentering(WithIdentity(reduced_symops),
                              LATTICE_TYPE_TRANSLATIONS[Abs(lattice_type)]),
          reduced_symops |-> WithIdentity(reduced_symops)]

\* the returned full list and the caller's list after the call, or KeyError
expanded_symmetry_list(reduced_symops, lattice_type) ==
    IF Abs(lattice_type) \notin DOMAIN LATTICE_TYPE_TRANSLATIONS THEN KeyError
    ELSE LET centred == ExpandCentering(WithIdentity(reduced_symops),
                            LATTICE_TYPE_TRANSLATIONS[Abs(lattice_type)])
         IN  [full_symops |-> IF lattice_type > 0
                              THEN centred \o InvertedList(centred)
                              ELSE centred,
              reduced_symops |-> WithIdentity(reduced_symops)]

\* the for loop over translations leaves through break
CenteringBreaks(next_symop, translations, reduced_symops, inversion) ==
    \E k \in 1..Len(translations) :
        \/ inversion /\ InList(inverted(sym_add(next_symop, translations[k])),
                               reduced_symops)
        \/ InList(sym_add(next_symop, translations[k]), reduced_symops)

RECURSIVE ReduceLoop(_, _, _, _)
ReduceLoop(reduced_symops, symops_to_process, translations, inversion) ==
    IF symops_to_process = <<>> THEN reduced_symops
    ELSE IF \/ InList(Head(symops_to_process), reduced_symops)
            \/ inversion /\ InList(inverted(Head(symops_to_process)), reduced_symops)
            \/ CenteringBreaks(Head(symops_to_process), translations,
                               reduced_symops, inversion)
         THEN ReduceLoop(reduced_symops, Tail(symops_to_process),
                         translations, inversion)
         ELSE ReduceLoop(Append(reduced_symops, Head(symops_to_process)),
                         Tail(symops_to_process), translations, inversion)

reduced_symmetry_list(full_symops, lattice_type) ==
    IF Abs(lattice_type) \notin DOMAIN LATTICE_TYPE_TRANSLATIONS THEN KeyError
    ELSE ReduceLoop(<<identity>>, full_symops,
                    LATTICE_TYPE_TRANSLATIONS[Abs(lattice_type)], lattice_type > 0)

Codes(symops_list) == [k \in 1..Len(symops_list) |-> integer_code(symops_list[k])]
CodeSet(symops_list) == {integer_code(symops_list[k]) : k \in 1..Len(symops_list)}
\* tuple(sorted(s.integer_code for s in symops))
Signature(symops_list) == SortSeq(Codes(symops_list), LAMBDA a, b : a < b)

(***************************************************************************)
(* class SpaceGroup                                                        *)
(***************************************************************************)
MinNumber == 1
MaxNumber == 230

\* the attributes with the operation list in the opposite order
FromSgdata_reversed(sgdata) ==
    [international_tables_number |-> sgdata.number,
     symbol |-> sgdata.short,
     choice |-> sgdata.choice,
     centering |-> sgdata.centering,
     centrosymmetric |-> sgdata.centrosymmetric,
     symmetry_operations |->
         [k \in 1..Len(sgdata.symops) |->
             from_integer_code(sgdata.symops[Len(sgdata.symops) + 1 - k])]]

\* the attributes __init__ copies from the table entry
FromSgdata(sgdata) ==
    [international_tables_number |-> sgdata.number,
     symbol |-> sgdata.short,
     choice |-> sgdata.choice,
     centering |-> sgdata.centering,
     centrosymmetric |-> sgdata.centrosymmetric,
     symmetry_operations |->
         [k \in 1..Len(sgdata.symops) |-> from_integer_code(sgdata.symops[k])]]

\* __init__: the object, or the ValueError it raises
SpaceGroup(international_tables_number, choice) ==
    IF international_tables_number < MinNumber \/ international_tables_number > MaxNumber
    THEN ValueError
    ELSE IF choice = ""
    THEN FromSgdata(SG_FROM_NUMBER(international_tables_number)[1])
    ELSE IF \E k \in TableIndex : /\ SgTable[k].number = international_tables_number
                                  /\ SgTable[k].choice = choice
    THEN FromSgdata(SelectSeq(SG_FROM_NUMBER(international_tables_number),
                              LAMBDA x : x.choice = choice)[1])
    ELSE ValueError

centering_to_latt(centering) ==
    CASE centering = "primitive" -> 1
      [] centering = "body" -> 2
      [] centering = "rcenter" -> 3
      [] centering = "face" -> 4
      [] centering = "aface" -> 5
      [] centering = "bface" -> 6
      [] centering = "cface" -> 7

latt(sg) ==
    IF ~sg.centrosymmetric THEN -centering_to_latt(sg.centering)
    ELSE centering_to_latt(sg.centering)

reduced_symmetry_operations(sg) == reduced_symmetry_list(sg.symmetry_operations, latt(sg))

IsSpaceGroup(v) == "international_tables_number" \in DOMAIN v

\* expand_latt is <<>> for None and <<L>> for the integer L
MinLatt == 0 - 8
MaxLatt == 8

\* from_symmetry_operations that accepts any list whose codes all belong to
\* one signature
from_symmetry_operations_subset(symops_list, expand_latt) ==
    LET hits == {k \in TableIndex :
                    CodeSet(symops_list) \subseteq
                        {SgTable[k].symops[m] : m \in 1..Len(SgTable[k].symops)}}
    IN  [result |-> IF hits = {} THEN ValueError
                    ELSE SpaceGroup(SgTable[CHOOSE k \in hits : TRUE].number,
                                    SgTable[CHOOSE k \in hits : TRUE].choice),
         symops |-> symops_list]

\* from_symmetry_operations: what it returns or raises, and the caller's
\* list after the call
from_symmetry_operations(symops_list, expand_latt) ==
    IF expand_latt # <<>> /\ ~(MinLatt < expand_latt[1] /\ expand_latt[1] < MaxLatt)
    THEN [result |-> ValueError, symops |-> symops_list]
    ELSE IF expand_latt # <<>> /\ IsError(expanded_symmetry_list(symops_list, expand_latt[1]))
    THEN [result |-> KeyError, symops |-> symops_list]
    ELSE LET ex == IF expand_latt = <<>>
                   THEN [full_symops |-> symops_list, reduced_symops |-> symops_list]
                   ELSE expanded_symmetry_list(symops_list, expand_latt[1])
             encoded == Signature(ex.full_symops)
         IN  [result |-> IF encoded \notin SG_FROM_SYMOPS_keys THEN ValueError
                         ELSE SpaceGroup(SG_FROM_SYMOPS(encoded).number,
                                         SG_FROM_SYMOPS(encoded).choice),
              symops |-> ex.reduced_symops]

(***************************************************************************)
(* Crystal.from_cif_data, Crystal.to_shelx_string and                      *)
(* Crystal.from_shelx_string: the space group they build or write.         *)
(* cif_data is [number, xyz, name]: symmetry_Int_Tables_number,            *)
(* symmetry_equiv_pos_as_xyz and symmetry_space_group_name_H-M, each <<>>  *)
(* when the key is absent and <<value>> when present.                      *)
(***************************************************************************)
ParseAll(strings) == [k \in 1..Len(strings) |-> from_string_code(strings[k])]
AnyError(results) == \E k \in 1..Len(results) : IsError(results[k])
FirstError(results) ==
    results[CHOOSE k \in 1..Len(results) :
                IsError(results[k]) /\ \A m \in 1..(k - 1) : ~IsError(results[m])]

DefaultNumber == 1

\* the value of a one-element set; {F(x) : x \in {e}} evaluates e once
TheOne(S) == CHOOSE x \in S : TRUE

\* from_cif_data after SpaceGroup(number) gave first and the strings of
\* symmetry_equiv_pos_as_xyz, if present, gave parsed
cif_space_group_from(cif_data, first, parsed) ==
    IF IsError(first) THEN first
    ELSE IF cif_data.xyz = <<>> THEN first
    ELSE IF AnyError(parsed) THEN FirstError(parsed)
    ELSE IF IsSpaceGroup(from_symmetry_operations(parsed, <<>>).result)
    THEN from_symmetry_operations(parsed, <<>>).result
    ELSE [first EXCEPT !.symmetry_operations = parsed,
                       !.symbol = IF cif_data.name = <<>> THEN first.symbol
                                  ELSE cif_data.name[1]]

\* the space_group from_cif_data hands to Crystal(...), or the error raised
cif_space_group(cif_data) ==
    TheOne({cif_space_group_from(cif_data, first, parsed) :
               first \in {SpaceGroup(IF cif_data.number = <<>> THEN DefaultNumber
                                     ELSE cif_data.number[1], "")},
               parsed \in {IF cif_data.xyz = <<>> THEN <<>>
                           ELSE ParseAll(cif_data.xyz[1])}})

\* shelx_data["SYMM"] and shelx_data["LATT"] of to_shelx_string
shelx_symm(sg) ==
    LET kept == SelectSeq(reduced_symmetry_operations(sg), LAMBDA x : ~is_identity(x))
    IN  [k \in 1..Len(kept) |-> sym_str(kept[k])]
shelx_data(sg) == [SYMM |-> shelx_symm(sg), LATT |-> latt(sg)]

\* parse_shelx_file_content: SYMM lines become SymmetryOperations
parse_shelx_symm(strings) == ParseAll(strings)

\* the space_group from_shelx_string hands to Crystal(...), or the error
shelx_space_group_from(symm, latt_code) ==
    IF AnyError(symm) THEN FirstError(symm)
    ELSE from_symmetry_operations(symm, <<latt_code>>).result
shelx_space_group(shelx_dict) ==
    TheOne({shelx_space_group_from(symm, shelx_dict.LATT) :
               symm \in {parse_shelx_symm(shelx_dict.SYMM)}})

(***************************************************************************)
(* Elements, unit cell, asymmetric unit.  Lengths are integers in units of *)
(* 0.01 Angstrom; a cartesian coordinate is a grid coordinate times a cell *)
(* length, that is a length in units of 0.01/Den Angstrom.  The cells of   *)
(* the model have right angles, so the direct matrix is diagonal.          *)
(* Occupations are integers in units of 1/FullOccupation.                  *)
(***************************************************************************)
Hydrogen == 1
Carbon == 6
\* Element.cov of the elements the scenarios use
CovalentRadius(atomic_number) ==
    CASE atomic_number = Hydrogen -> 23
      [] atomic_number = Carbon -> 68

FullOccupation == 100

\* UnitCell.to_cartesian: np.dot(coords, self.direct)
to_cartesian(unit_cell, coords) ==
    [r \in 1..Len(coords) |-> [i \in Range3 |-> coords[r][i] * unit_cell.lengths[i]]]

\* squared distance of two points
Dist2(a, b) ==
    (a[1] - b[1]) * (a[1] - b[1]) + (a[2] - b[2]) * (a[2] - b[2])
        + (a[3] - b[3]) * (a[3] - b[3])

\* AsymmetricUnit(elements, positions, labels, occupation=...); occupation
\* is <<>> when the keyword is not given
AsymmetricUnit(atomic_numbers, positions, labels, occupation) ==
    [atomic_numbers |-> atomic_numbers, positions |-> positions,
     labels |-> labels, occupation |-> occupation]

\* Crystal.__init__: no table is cached yet
Crystal(unit_cell, sg, asymmetric_unit) ==
    [unit_cell |-> unit_cell, space_group |-> sg, asymmetric_unit |-> asymmetric_unit,
     unit_cell_atom_dict |-> Unset, uc_graph |-> Unset,
     unit_cell_molecules |-> Unset, symmetry_unique_molecules |-> Unset]

nsites(c) == Len(c.asymmetric_unit.atomic_numbers)

\* np.tile(list, n) and list[mask]
Tile(list, n) == [r \in 1..(Len(list) * n) |-> list[((r - 1) % Len(list)) + 1]]
RECURSIVE Masked(_, _)
Masked(list, mask) ==
    IF list = <<>> THEN <<>>
    ELSE (IF Head(mask) THEN <<Head(list)>> ELSE <<>>) \o Masked(Tail(list), Tail(mask))

(***************************************************************************)
(* SpaceGroup.apply_all_symops.  Rows are numbered from 1; row r belongs   *)
(* to block (r - 1) \div nsites.                                           *)
(***************************************************************************)
\* the index "unity" the loop leaves: the first identity, else the first
\* operation of the list
UnityIndex(ops) ==
    IF \E i \in 1..Len(ops) : integer_code(ops[i]) = IdentityCode
    THEN CHOOSE i \in 1..Len(ops) :
            /\ integer_code(ops[i]) = IdentityCode
            /\ \A m \in 1..(i - 1) : integer_code(ops[m]) # IdentityCode
    ELSE 1

RemoveAt(list, i) == SubSeq(list, 1, i - 1) \o SubSeq(list, i + 1, Len(list))

apply_all_symops_from(other_symops, coordinates, rows) ==
    [generator_symop |->
        [r \in 1..rows |->
            IF r <= Len(coordinates) THEN IdentityCode
            ELSE integer_code(other_symops[(r - 1) \div Len(coordinates)])],
     transformed |->
        [r \in 1..rows |->
            IF r <= Len(coordinates) THEN coordinates[r]
            ELSE apply(other_symops[(r - 1) \div Len(coordinates)],
                       coordinates[((r - 1) % Len(coordinates)) + 1])]]

apply_all_symops(sg, coordinates) ==
    apply_all_symops_from(
        RemoveAt(sg.symmetry_operations, UnityIndex(sg.symmetry_operations)),
        coordinates, Len(coordinates) * Len(sg.symmetry_operations))

\* the space group after the call: the loop reads s.integer_code up to the
\* identity and the second loop reads it for every other operation, so each
\* stored operation now holds its code
CodesRead(sg) ==
    [sg EXCEPT !.symmetry_operations = [k \in 1..Len(@) |-> AfterCodeRead(@[k])]]

(***************************************************************************)
(* Crystal.unit_cell_atoms                                                 *)
(***************************************************************************)
\* numpy.fmod: the remainder has the sign of the dividend
Fmod(a, b) == IF a >= 0 THEN a % b ELSE -((-a) % b)

WrapOffset == 7
\* np.fmod(uc_pos + 7.0, 1)
Translated(uc_pos) ==
    [r \in 1..Len(uc_pos) |-> [i \in Range3 |-> Fmod(uc_pos[r][i] + WrapOffset * Den, Den)]]

\* the default tolerance, 1e-3, is 1 / ToleranceInverse
ToleranceInverse == 1000

\* the keys with max_distance a hundred times the tolerance
close_pairs_wide(translated, tolerance_inverse) ==
    {p \in (1..Len(translated)) \X (1..Len(translated)) :
        /\ p[1] < p[2]
        /\ Dist2(translated[p[1]], translated[p[2]]) <= (Den * Den) \div (10 * 10)}

\* the keys (i, j), i < j, of tree.sparse_distance_matrix(tree,
\* max_distance=tolerance): rows whose fractional distance is <= tolerance,
\* the tolerance being 1 / tolerance_inverse
close_pairs(translated, tolerance_inverse) ==
    {p \in (1..Len(translated)) \X (1..Len(translated)) :
        /\ p[1] < p[2]
        /\ Dist2(translated[p[1]], translated[p[2]])
               <= (Den * Den) \div (tolerance_inverse * tolerance_inverse)}

\* the merge loop: "occupation[i] += occupation[j]" for every key, in the
\* order dist.items() gives them, which the code does not fix; the set of
\* occupation arrays the loop can end with
RECURSIVE MergeOutcomes(_, _)
MergeOutcomes(pairs, occupation) ==
    IF pairs = {} THEN {occupation}
    ELSE UNION {MergeOutcomes(pairs \ {p},
                              [occupation EXCEPT ![p[1]] = @ + occupation[p[2]]]) :
                    p \in pairs}

MergeMask(pairs, rows) == [r \in 1..rows |-> ~\E p \in pairs : p[2] = r]

\* the dictionary unit_cell_atoms stores, for the arrays apply_all_symops
\* returned and one outcome of the merge loop; asym_atom counts from 0
unit_cell_atom_dict(c, applied, translated, mask, occupation) ==
    [asym_atom |-> Masked([r \in 1..Len(translated) |-> (r - 1) % nsites(c)], mask),
     frac_pos |-> Masked(translated, mask),
     element |-> Masked(Tile(c.asymmetric_unit.atomic_numbers,
                             Len(c.space_group.symmetry_operations)), mask),
     symop |-> Masked(applied.generator_symop, mask),
     label |-> Masked(Tile(c.asymmetric_unit.labels,
                           Len(c.space_group.symmetry_operations)), mask),
     occupation |-> Masked(occupation, mask),
     cart_pos |-> to_cartesian(c.unit_cell, Masked(translated, mask))]

\* self.asymmetric_unit.properties.get("occupation", np.ones(natom))
SiteOccupation(c) ==
    IF c.asymmetric_unit.occupation = <<>> THEN [k \in 1..nsites(c) |-> FullOccupation]
    ELSE c.asymmetric_unit.occupation[1]

\* the body of unit_cell_atoms after the test for the cached dictionary:
\* the crystals it can leave, each with its _unit_cell_atom_dict set
unit_cell_atoms_computed(c, tolerance_inverse) ==
    UNION {UNION {
            {[c EXCEPT !.space_group = CodesRead(@),
                       !.unit_cell_atom_dict =
                  <<unit_cell_atom_dict(c, applied, translated,
                        MergeMask(pairs, Len(translated)), occupation)>>] :
                occupation \in MergeOutcomes(pairs,
                                  Tile(SiteOccupation(c),
                                       Len(c.space_group.symmetry_operations)))} :
            translated \in {Translated(applied.transformed)},
            pairs \in {close_pairs(Translated(applied.transformed), tolerance_inverse)}} :
         applied \in {apply_all_symops(c.space_group, c.asymmetric_unit.positions)}}

\* unit_cell_atoms without the test for the cached dictionary
unit_cell_atoms_again(c, tolerance_inverse) ==
    unit_cell_atoms_computed(c, tolerance_inverse)

\* unit_cell_atoms(tolerance): the crystals the call can leave; a cached
\* dictionary is returned as it is, whatever the tolerance
unit_cell_atoms(c, tolerance_inverse) ==
    IF c.unit_cell_atom_dict # Unset THEN {c}
    ELSE unit_cell_atoms_computed(c, tolerance_inverse)

(***************************************************************************)
(* Crystal.slab                                                            *)
(***************************************************************************)
\* h[np.argsort(np.abs(h))] for h = hmin..hmax
SortedByAbs(hmin, hmax) ==
    SortSeq([k \in 1..(hmax - hmin + 1) |-> hmin + k - 1],
            LAMBDA a, b : Abs(a) < Abs(b) \/ (Abs(a) = Abs(b) /\ a < b))

\* cartesian_product(h, k, l): every (h, k, l), the last index running fastest
cartesian_product(h, k, l) ==
    [n \in 1..(Len(h) * Len(k) * Len(l)) |->
        <<h[((n - 1) \div (Len(k) * Len(l))) + 1],
          k[(((n - 1) \div Len(l)) % Len(k)) + 1],
          l[((n - 1) % Len(l)) + 1]>>]

SlabCells(bounds) ==
    cartesian_product(SortedByAbs(bounds[1][1], bounds[2][1]),
                      SortedByAbs(bounds[1][2], bounds[2][2]),
                      SortedByAbs(bounds[1][3], bounds[2][3]))

\* the slab dictionary for a cached unit cell table
slab_dict(c, uc_atoms, cells) ==
    [asym_atom |-> Tile(uc_atoms.asym_atom, Len(cells)),
     element |-> Tile(uc_atoms.element, Len(cells)),
     symop |-> Tile(uc_atoms.symop, Len(cells)),
     label |-> Tile(uc_atoms.label, Len(cells)),
     occupation |-> Tile(uc_atoms.occupation, Len(cells)),
     frac_pos |->
        [r \in 1..(Len(cells) * Len(uc_atoms.frac_pos)) |->
            [i \in Range3 |->
                uc_atoms.frac_pos[((r - 1) % Len(uc_atoms.frac_pos)) + 1][i]
                    + Den * cells[((r - 1) \div Len(uc_atoms.frac_pos)) + 1][i]]],
     cell |->
        [r \in 1..(Len(cells) * Len(uc_atoms.frac_pos)) |->
            cells[((r - 1) \div Len(uc_atoms.frac_pos)) + 1]],
     n_uc |-> Len(uc_atoms.frac_pos),
     n_cells |-> Len(cells),
     cart_pos |->
        to_cartesian(c.unit_cell,
            [r \in 1..(Len(cells) * Len(uc_atoms.frac_pos)) |->
                [i \in Range3 |->
                    uc_atoms.frac_pos[((r - 1) % Len(uc_atoms.frac_pos)) + 1][i]
                        + Den * cells[((r - 1) \div Len(uc_atoms.frac_pos)) + 1][i]]])]

\* slab(bounds) computing the unit cell table anew on every call
slab_recomputing(c, bounds) ==
    UNION {{[crystal |-> c1, slab |-> slab_dict(c1, uc_atoms, cells)] :
                uc_atoms \in {c1.unit_cell_atom_dict[1]},
                cells \in {SlabCells(bounds)}} :
           c1 \in unit_cell_atoms_computed(c, ToleranceInverse)}

\* slab(bounds): the crystals the call can leave (it fills the unit cell
\* table) and, for each, the dictionary returned
slab(c, bounds) ==
    UNION {{[crystal |-> c1, slab |-> slab_dict(c1, uc_atoms, cells)] :
                uc_atoms \in {c1.unit_cell_atom_dict[1]},
                cells \in {SlabCells(bounds)}} :
           c1 \in unit_cell_atoms(c, ToleranceInverse)}

DefaultBounds == << <<-1, -1, -1>>, <<1, 1, 1>> >>

(***************************************************************************)
(* Crystal.unit_cell_connectivity.  An edge is [i, j, d2, cell] with       *)
(* i < j unit cell rows, d2 the squared cartesian distance and cell the    *)
(* cell of the image of j that is bonded to i.                             *)
(***************************************************************************)
BondTolerance == 40
\* the default of neighbouring_cells
DefaultNeighbouringCells == 1

\* lengths per Angstrom of the model
PerAngstrom == 10 * 10

\* d > 1e-3 and d < cov_i + cov_j + tolerance, for the squared distance d2,
\* an integer, so that d2 > q is d2 > floor(q)
Bonded(d2, number_i, number_j, tolerance) ==
    /\ d2 > (PerAngstrom * PerAngstrom * Den * Den) \div (ToleranceInverse * ToleranceInverse)
    /\ d2 < (CovalentRadius(number_i) + CovalentRadius(number_j) + tolerance)
            * (CovalentRadius(number_i) + CovalentRadius(number_j) + tolerance)
            * Den * Den

\* the edges of the first loop: both atoms in the cell (0, 0, 0)
CellEdges(sl, tolerance) ==
    {[i |-> p[1], j |-> p[2], d2 |-> Dist2(sl.cart_pos[p[1]], sl.cart_pos[p[2]]),
      cell |-> <<0, 0, 0>>] :
        p \in {q \in (1..sl.n_uc) \X (1..sl.n_uc) :
                /\ q[1] < q[2]
                /\ Bonded(Dist2(sl.cart_pos[q[1]], sl.cart_pos[q[2]]),
                          sl.element[q[1]], sl.element[q[2]], tolerance)}}

\* the second loop without the cell of the neighbouring image
NeighbourEdges_untagged(sl, tolerance) ==
    {[i |-> p[1], j |-> ((p[2] - 1) % sl.n_uc) + 1,
      d2 |-> Dist2(sl.cart_pos[p[1]], sl.cart_pos[p[2]]), cell |-> <<0, 0, 0>>] :
        p \in {q \in (1..sl.n_uc) \X ((sl.n_uc + 1)..Len(sl.cart_pos)) :
                /\ q[1] < ((q[2] - 1) % sl.n_uc) + 1
                /\ Bonded(Dist2(sl.cart_pos[q[1]], sl.cart_pos[q[2]]),
                          sl.element[q[1]], sl.element[q[2]], tolerance)}}

\* the edges of the second loop: row r > n_uc of the slab is the image of
\* unit cell row ((r - 1) % n_uc) + 1 in cell sl.cell[r]
NeighbourEdges(sl, tolerance) ==
    {[i |-> p[1], j |-> ((p[2] - 1) % sl.n_uc) + 1,
      d2 |-> Dist2(sl.cart_pos[p[1]], sl.cart_pos[p[2]]), cell |-> sl.cell[p[2]]] :
        p \in {q \in (1..sl.n_uc) \X ((sl.n_uc + 1)..Len(sl.cart_pos)) :
                /\ q[1] < ((q[2] - 1) % sl.n_uc) + 1
                /\ Bonded(Dist2(sl.cart_pos[q[1]], sl.cart_pos[q[2]]),
                          sl.element[q[1]], sl.element[q[2]], tolerance)}}

\* "uc_graph[i, j] = d; properties[(i, j)] = cell" over uc_edges keeps, for
\* each (i, j), the edge appended last: an edge of the second loop if there
\* is one (which of several the order of dist.items() decides), else the
\* edge of the first loop.  The sets of edges that can be left:
LastOf(p, cell_edges, neighbour_edges) ==
    IF \E e \in neighbour_edges : e.i = p[1] /\ e.j = p[2]
    THEN {e \in neighbour_edges : e.i = p[1] /\ e.j = p[2]}
    ELSE {e \in cell_edges : e.i = p[1] /\ e.j = p[2]}

RECURSIVE LastEdges(_, _, _)
LastEdges(pairs, cell_edges, neighbour_edges) ==
    IF pairs = {} THEN {{}}
    ELSE UNION {{rest \cup {e} :
                    rest \in LastEdges(others, cell_edges, neighbour_edges),
                    e \in LastOf(p, cell_edges, neighbour_edges)} :
                p \in {CHOOSE q \in pairs : TRUE},
                others \in {pairs \ {CHOOSE q \in pairs : TRUE}}}

EdgePairs(edges) == {<<e.i, e.j>> : e \in edges}

\* the graphs one slab can give
uc_graphs(sl, tolerance) ==
    UNION {LastEdges(pairs, cell_edges, neighbour_edges) :
              pairs \in {EdgePairs(CellEdges(sl, tolerance) \cup NeighbourEdges(sl, tolerance))},
              cell_edges \in {CellEdges(sl, tolerance)},
              neighbour_edges \in {NeighbourEdges(sl, tolerance)}}

\* unit_cell_connectivity(tolerance, neighbouring_cells): the crystals the
\* call can leave, each with its _uc_graph set; the slab is always that of
\* DefaultBounds, neighbouring_cells is not read
unit_cell_connectivity(c, tolerance, neighbouring_cells) ==
    IF c.uc_graph # Unset THEN {c}
    ELSE UNION {{[s.crystal EXCEPT !.uc_graph = <<edges>>] :
                    edges \in uc_graphs(s.slab, tolerance)} :
                s \in slab(c, DefaultBounds)}

(***************************************************************************)
(* Crystal.unit_cell_molecules                                             *)
(***************************************************************************)
RECURSIVE Ascending(_)
Ascending(S) ==
    IF S = {} THEN <<>>
    ELSE TheOne({<<m>> \o Ascending(S \ {m}) :
                    m \in {CHOOSE x \in S : \A y \in S : x <= y}})

\* the nodes joined to a node of "nodes" by edges, either way
RECURSIVE Closure(_, _)
Closure(edges, nodes) ==
    TheOne({IF more = nodes THEN nodes ELSE Closure(edges, more) :
              more \in {nodes \cup {e.j : e \in {x \in edges : x.i \in nodes}}
                              \cup {e.i : e \in {x \in edges : x.j \in nodes}}}})

\* csgraph.connected_components(directed=False): the node sets, label k
\* being the kth in the order of their lowest nodes
RECURSIVE connected_components(_, _)
connected_components(edges, remaining) ==
    IF remaining = {} THEN <<>>
    ELSE TheOne({<<comp>> \o connected_components(edges, remaining \ comp) :
                   comp \in {Closure(edges, {CHOOSE x \in remaining :
                                                \A y \in remaining : x <= y})}})

\* the tag of the edge with its sign turned
edge_cells_negated(edges, i, j) ==
    [k \in Range3 |-> 0 - (CHOOSE e \in edges : e.i = i /\ e.j = j).cell[k]]

edge_cells(edges, i, j) == (CHOOSE e \in edges : e.i = i /\ e.j = j).cell

InSeq(x, list) == \E k \in 1..Len(list) : list[k] = x

\* the neighbours breadth_first_order visits from node u: the row of u
\* (higher nodes), then the column of u (lower nodes), each ascending
NeighboursOf(edges, u) ==
    Ascending({e.j : e \in {x \in edges : x.i = u}})
        \o Ascending({e.i : e \in {x \in edges : x.j = u}})

\* csgraph.breadth_first_order from the root, with the loop over
\* ordered[1:] that sets shifts[j] from the shift of the predecessor of j
RECURSIVE breadth_first_order(_, _, _, _)
breadth_first_order(edges, queue, ordered, shifts) ==
    IF queue = <<>> THEN [ordered |-> ordered, shifts |-> shifts]
    ELSE TheOne(
        {breadth_first_order(edges, rest, reached, shifted) :
            rest \in {Tail(queue) \o SelectSeq(NeighboursOf(edges, Head(queue)),
                                               LAMBDA j : ~InSeq(j, ordered))},
            reached \in {ordered \o SelectSeq(NeighboursOf(edges, Head(queue)),
                                              LAMBDA j : ~InSeq(j, ordered))},
            shifted \in {[j \in DOMAIN shifts |->
                IF InSeq(j, ordered) \/ ~InSeq(j, NeighboursOf(edges, Head(queue)))
                THEN shifts[j]
                ELSE IF j < Head(queue)
                THEN SubVector(shifts[Head(queue)], edge_cells(edges, j, Head(queue)))
                ELSE AddVector(shifts[Head(queue)], edge_cells(edges, Head(queue), j))]}})

\* np.argsort(asym_atoms), which keeps the order of equal entries
Argsort(keys) ==
    SortSeq([k \in 1..Len(keys) |-> k],
            LAMBDA a, b : keys[a] < keys[b] \/ (keys[a] = keys[b] /\ a < b))

Take(list, idx) == [k \in 1..Len(idx) |-> list[idx[k]]]

\* Molecule.from_arrays(elements, positions, **properties)
Molecule(elements, positions, uc_atoms, asym_atoms, asym_labels, generator_symop) ==
    [elements |-> elements, positions |-> positions,
     unit_cell_atoms |-> uc_atoms,
     asymmetric_unit_atoms |-> asym_atoms,
     asymmetric_unit_labels |-> asym_labels,
     generator_symop |-> generator_symop]

\* the body of the loop with the positions left in the order of the nodes
molecule_of_positions_unsorted(c, uc, nodes, shifts, reorder) ==
    Molecule(Take(Take(uc.element, nodes), reorder),
             to_cartesian(c.unit_cell,
                    [k \in 1..Len(nodes) |->
                        [i \in Range3 |-> uc.frac_pos[nodes[k]][i]
                                            + Den * shifts[nodes[k]][i]]]),
             Take(nodes, reorder),
             Take(Take(uc.asym_atom, nodes), reorder),
             [k \in 1..Len(nodes) |->
                c.asymmetric_unit.labels[Take(Take(uc.asym_atom, nodes), reorder)[k] + 1]],
             Take(Take(uc.symop, nodes), reorder))

\* the body of the loop over components: nodes ascending, unit cell rows
\* from 1 and asymmetric unit indices from 0
molecule_of(c, uc, nodes, shifts, reorder) ==
    Molecule(Take(Take(uc.element, nodes), reorder),
             Take(to_cartesian(c.unit_cell,
                    [k \in 1..Len(nodes) |->
                        [i \in Range3 |-> uc.frac_pos[nodes[k]][i]
                                            + Den * shifts[nodes[k]][i]]]), reorder),
             Take(nodes, reorder),
             Take(Take(uc.asym_atom, nodes), reorder),
             [k \in 1..Len(nodes) |->
                c.asymmetric_unit.labels[Take(Take(uc.asym_atom, nodes), reorder)[k] + 1]],
             Take(Take(uc.symop, nodes), reorder))

\* the loop over components with every atom a component of its own
molecules_of_unbonded(c, uc, edges) ==
    TheOne({[m \in 1..Len(comps) |->
                TheOne({molecule_of(c, uc, nodes, [j \in 1..Len(uc.frac_pos) |-> <<0, 0, 0>>],
                                    Argsort(Take(uc.asym_atom, nodes))) :
                    nodes \in {Ascending(comps[m])}})] :
            comps \in {connected_components({}, 1..Len(uc.frac_pos))}})

molecules_of(c, uc, edges) ==
    TheOne({[m \in 1..Len(comps) |->
                TheOne({molecule_of(c, uc, nodes, bfs.shifts,
                                    Argsort(Take(uc.asym_atom, nodes))) :
                    nodes \in {Ascending(comps[m])},
                    bfs \in {breadth_first_order(edges,
                                <<CHOOSE x \in comps[m] : \A y \in comps[m] : x <= y>>,
                                <<CHOOSE x \in comps[m] : \A y \in comps[m] : x <= y>>,
                                [j \in 1..Len(uc.frac_pos) |-> <<0, 0, 0>>])}})] :
            comps \in {connected_components(edges, 1..Len(uc.frac_pos))}})

\* unit_cell_molecules(): the crystals the call can leave, each with its
\* _unit_cell_molecules set
unit_cell_molecules(c) ==
    IF c.unit_cell_molecules # Unset THEN {c}
    ELSE {[c1 EXCEPT !.unit_cell_molecules =
                <<molecules_of(c1, c1.unit_cell_atom_dict[1], c1.uc_graph[1])>>] :
            c1 \in unit_cell_connectivity(c, BondTolerance, DefaultNeighbouringCells)}

(***************************************************************************)
(* Crystal.symmetry_unique_molecules                                       *)
(***************************************************************************)
\* len(np.where(x.asym_symops == 16484)[0]), the numerator of "order"
IdentityCount(mol) ==
    Cardinality({k \in 1..Len(mol.generator_symop) : mol.generator_symop[k] = IdentityCode})

\* the molecules sorted without reverse=True
SortedByIdentity_ascending(uc_molecules) ==
    Take(uc_molecules,
         SortSeq([k \in 1..Len(uc_molecules) |-> k],
            LAMBDA a, b :
                \/ IdentityCount(uc_molecules[a]) * Len(uc_molecules[b].elements)
                        < IdentityCount(uc_molecules[b]) * Len(uc_molecules[a].elements)
                \/ /\ IdentityCount(uc_molecules[a]) * Len(uc_molecules[b].elements)
                        = IdentityCount(uc_molecules[b]) * Len(uc_molecules[a].elements)
                   /\ a < b))

\* sorted(uc_molecules, key=order, reverse=True): descending by
\* IdentityCount / len, molecules of equal key in their order in the list
SortedByIdentity(uc_molecules) ==
    Take(uc_molecules,
         SortSeq([k \in 1..Len(uc_molecules) |-> k],
            LAMBDA a, b :
                \/ IdentityCount(uc_molecules[a]) * Len(uc_molecules[b].elements)
                        > IdentityCount(uc_molecules[b]) * Len(uc_molecules[a].elements)
                \/ /\ IdentityCount(uc_molecules[a]) * Len(uc_molecules[b].elements)
                        = IdentityCount(uc_molecules[b]) * Len(uc_molecules[a].elements)
                   /\ a < b))

AsymAtomsIn(mol) ==
    {mol.asymmetric_unit_atoms[k] : k \in 1..Len(mol.asymmetric_unit_atoms)}

\* the loop over the sorted molecules from position k: asym_atoms is the set
\* of indices marked True, molecules the list so far
RECURSIVE AcceptLoop(_, _, _, _, _)
AcceptLoop(sorted, k, asym_atoms, molecules, natom) ==
    IF k > Len(sorted) THEN molecules
    ELSE IF AsymAtomsIn(sorted[k]) \subseteq asym_atoms
    THEN AcceptLoop(sorted, k + 1, asym_atoms, molecules, natom)
    ELSE TheOne({IF marked = 0..(natom - 1) THEN accepted
                 ELSE AcceptLoop(sorted, k + 1, marked, accepted, natom) :
                    marked \in {asym_atoms \cup AsymAtomsIn(sorted[k])},
                    accepted \in {Append(molecules, sorted[k])}})

\* symmetry_unique_molecules(bond_tolerance): the crystals the call can
\* leave, each with its _symmetry_unique_molecules set; bond_tolerance is
\* not read (unit_cell_molecules() is called without it)
symmetry_unique_molecules(c, bond_tolerance) ==
    IF c.symmetry_unique_molecules # Unset THEN {c}
    ELSE {[c1 EXCEPT !.symmetry_unique_molecules =
                <<TheOne({AcceptLoop(sorted, 1, {}, <<>>, nsites(c1)) :
                            sorted \in {SortedByIdentity(c1.unit_cell_molecules[1])}})>>] :
            c1 \in unit_cell_molecules(c)}

(***************************************************************************)
(* Crystal.molecule_surroundings.  The radius is in units of 0.01          *)
(* Angstrom; a cartesian coordinate is a grid coordinate times a cell      *)
(* length, so the radius is radius * Den in cartesian units.               *)
(***************************************************************************)
CeilDiv(n, d) == 0 - ((0 - n) \div d)
MaxOf(S) == CHOOSE x \in S : \A y \in S : y <= x
MinOf(S) == CHOOSE x \in S : \A y \in S : x <= y

\* the slab bounds for a group of cartesian positions: hklmin is the floor
\* of pos - frac_radius and hklmax the ceiling of frac_radius + pos, taken
\* over the fractional positions
surroundings_bounds(c, positions, radius) ==
    <<[i \in Range3 |->
          MinOf({(positions[k][i] - radius * Den) \div (Den * c.unit_cell.lengths[i]) :
                    k \in 1..Len(positions)})],
      [i \in Range3 |->
          MaxOf({CeilDiv(radius * Den + positions[k][i], Den * c.unit_cell.lengths[i]) :
                    k \in 1..Len(positions)})]>>

\* tree.query_ball_point(pos, radius): the slab rows within radius of pos
InBall(p, q, reach) ==
    /\ \A i \in Range3 : Abs(p[i] - q[i]) <= reach
    /\ Dist2(p, q) <= reach * reach
query_ball_point(positions, pos, radius) ==
    {r \in 1..Len(positions) : InBall(positions[r], pos, radius * Den)}

\* atoms_in_radius(radius, origin): the slab around the origin, its rows
\* within the radius in ascending order, and the unit cell row (from 0) of
\* each; origin is cartesian
atoms_in_radius(c, radius, origin) ==
    UNION {{[crystal |-> s.crystal,
             result |-> [asym_atom |-> Take(s.slab.asym_atom, idxs),
                         element |-> Take(s.slab.element, idxs),
                         symop |-> Take(s.slab.symop, idxs),
                         label |-> Take(s.slab.label, idxs),
                         occupation |-> Take(s.slab.occupation, idxs),
                         frac_pos |-> Take(s.slab.frac_pos, idxs),
                         cell |-> Take(s.slab.cell, idxs),
                         cart_pos |-> Take(s.slab.cart_pos, idxs),
                         uc_atom |-> [k \in 1..Len(idxs) |-> (idxs[k] - 1) % s.slab.n_uc]]] :
                idxs \in {Ascending(query_ball_point(s.slab.cart_pos, origin, radius))}} :
           s \in slab(c, surroundings_bounds(c, <<origin>>, radius))}

\* tree.query(pos) with d < 1e-3: on the grid of the model a slab row is
\* closer than 1e-3 Angstrom to pos only if it is at pos; among several such
\* rows the tree returns one, the same for the same pos: tie is "first"
\* or "last"
query_nearest(positions, pos, tie) ==
    LET zero == {r \in 1..Len(positions) : positions[r] = pos}
    IN  IF zero = {} THEN {}
        ELSE IF tie = "first" THEN {MinOf(zero)} ELSE {MaxOf(zero)}

\* the loop over the atoms of the molecule from atom k: keep is the set of
\* rows marked True, this_mol the rows found so far
RECURSIVE surroundings_loop(_, _, _, _, _, _, _)
surroundings_loop(positions, mol_positions, k, keep, this_mol, radius, tie) ==
    IF k > Len(mol_positions) THEN keep
    ELSE TheOne({IF nn = {}
                 THEN surroundings_loop(positions, mol_positions, k + 1, keep \cup idxs,
                                        this_mol, radius, tie)
                 ELSE surroundings_loop(positions, mol_positions, k + 1,
                                        (keep \cup idxs) \ (this_mol \cup nn),
                                        this_mol \cup nn, radius, tie) :
                    idxs \in {query_ball_point(positions, mol_positions[k], radius)},
                    nn \in {query_nearest(positions, mol_positions[k], tie)}})

\* the tuple (mol, elements[keep], positions[keep]) for one molecule
surroundings_of(c, mol, radius, tie) ==
    TheOne({TheOne({[mol |-> mol, elements |-> Take(sl.element, kept),
                     positions |-> Take(sl.cart_pos, kept)] :
                kept \in {Ascending(surroundings_loop(sl.cart_pos, mol.positions, 1, {}, {},
                                                      radius, tie))}}) :
        sl \in {x.slab : x \in slab(c, surroundings_bounds(c, mol.positions, radius))}})

\* molecule_surroundings(radius): the crystals the call can leave and, for
\* each, the list it returns
molecule_surroundings(c, radius) ==
    {[crystal |-> c1,
      results |-> [m \in 1..Len(c1.symmetry_unique_molecules[1]) |->
                      surroundings_of(c1, c1.symmetry_unique_molecules[1][m], radius, tie)]] :
        c1 \in symmetry_unique_molecules(c, BondTolerance), tie \in {"first", "last"}}

(***************************************************************************)
(* Scenario 1: the integer codec.  Init draws the (rotation, translation)  *)
(* handed to encode_symm_int; Encode and Decode apply the two functions.   *)
(***************************************************************************)
RotationEntries == {-1, 0, 1}
ValidNumerators == {0, 2, 3, 4, 6, 8, 9, 10}
ValidComponents == {k * TwelfthUnit : k \in ValidNumerators}

AllRotations == [Range3 -> [Range3 -> RotationEntries]]
AllValidTranslations == [Range3 -> ValidComponents]
\* every translation in twelfths inside [0,1)
AllTwelfths == [Range3 -> {k * TwelfthUnit : k \in 0..(Twelve - 1)}]

TwoFoldB == << <<-1, 0, 0>>, <<0, 1, 0>>, <<0, 0, -1>> >>
ThreeFoldC == << <<0, -1, 0>>, <<1, -1, 0>>, <<0, 0, 1>> >>
SampleRotations == {IdentityRotation, TwoFoldB, ThreeFoldC}
SampleTranslations == {ZeroTranslation, <<Half, 2 * Third, 10 * TwelfthUnit>>}

\* inputs outside the set encode_symm_int is specified for
OffGridTranslations == {<<1, 0, 0>>, <<0, Den - 1, Half + 1>>}
OutOfRangeRotations == {<< <<2, 0, 0>>, <<0, 1, 0>>, <<0, 0, 1>> >>}

ValidInput(rot, trans) == rot \in AllRotations /\ trans \in AllValidTranslations

symIdle == op = None /\ made_by = None /\ cmp = None
sgIdle ==
    /\ space_group = None
    /\ symops = NoList
    /\ sg_call = None
    /\ found = None
    /\ expanded = NoList
    /\ shelx = None
crystalIdle == crystal = None /\ cr_call = None /\ returned = None
cellIdle == unitcell = None
codecIdle == rotation = NoList /\ translation = NoList /\ coded = NoInt /\ decoded = None

CodecInit ==
    /\ pc = "input"
    /\ \/ rotation \in AllRotations /\ translation \in SampleTranslations
       \/ rotation \in SampleRotations /\ translation \in AllValidTranslations
       \/ rotation \in SampleRotations /\ translation \in AllTwelfths
       \/ rotation \in SampleRotations /\ translation \in OffGridTranslations
       \/ rotation \in OutOfRangeRotations /\ translation \in SampleTranslations
    /\ coded = NoInt
    /\ decoded = None
    /\ symIdle
    /\ sgIdle
    /\ crystalIdle
    /\ cellIdle

Encode ==
    /\ pc = "input"
    /\ coded' = encode_symm_int(rotation, translation)
    /\ pc' = "encoded"
    /\ UNCHANGED <<rotation, translation, decoded, symVars, sgVars, crystalVars, cellVars>>

Decode ==
    /\ pc = "encoded"
    /\ decoded' = decode_symm_int(coded)
    /\ pc' = "decoded"
    /\ UNCHANGED <<rotation, translation, coded, symVars, sgVars, crystalVars, cellVars>>

CodecNext == Encode \/ Decode
SpecCodec == CodecInit /\ [][CodecNext]_vars

\* C1: for every rotation with entries in {-1,0,1} and every translation with
\* components k/12, k in {0,2,3,4,6,8,9,10}, decode_symm_int(encode_symm_int(
\* rotation, translation)) gives back exactly that rotation and translation
\* (so encoding is injective on this set).
C1_RoundTrip ==
    (pc = "decoded" /\ ValidInput(rotation, translation)) =>
        (decoded.rotation = rotation /\ decoded.translation = translation)

\* a decoded operation with a full rotation and three different non-zero
\* translation components
C1_Witness ==
    /\ pc = "decoded"
    /\ rotation = ThreeFoldC
    /\ translation = <<Half, 2 * Third, 10 * TwelfthUnit>>
    /\ decoded.translation = translation

\* C11: the identity rotation with zero translation encodes to 16484,
\* SymmetryOperation.identity().is_identity() is true, and is_identity() is
\* false for every other operation with rotation entries in {-1,0,1} and a
\* translation in twelfths.
C11_OnlyIdentityIsIdentity ==
    /\ encode_symm_int(IdentityRotation, ZeroTranslation) = IdentityCode
    /\ is_identity(identity)
    /\ (pc = "encoded" /\ rotation \in AllRotations /\ translation \in AllTwelfths) =>
          /\ is_identity(SymmetryOperation(rotation, translation))
                <=> (rotation = IdentityRotation /\ translation = ZeroTranslation)
          /\ is_identity(SymmetryOperation(rotation, translation)) <=> (coded = IdentityCode)

\* a pure translation by 1/12 along c, encoded: its code is not 16484
C11_Witness ==
    /\ pc = "encoded"
    /\ rotation = IdentityRotation
    /\ translation = <<0, 0, TwelfthUnit>>
    /\ coded # IdentityCode

(***************************************************************************)
(* Scenario 2: one SymmetryOperation object.  It is made from matrices,    *)
(* from an integer code or from a string, and then changed by +, - and     *)
(* inverted(); made_by records the call and the translation it handed to   *)
(* __init__ before the reduction.                                          *)
(***************************************************************************)
Str_xyz == <<"x", ",", "y", ",", "z">>
Str_body == <<"1", "/", "2", "+", "x", ",", "1", "/", "2", "+", "y", ",",
              "1", "/", "2", "+", "z">>
Str_doc == <<"1", "/", "2", " ", "+", " ", "X", ",", " ", "y", ",", " ",
             "-", "z", " ", "-", "0", ".", "2", "5">>
Str_screw == <<"-", "x", ",", "y", "+", "1", ".", "5", ",", "-", "z", "-",
               "3", "/", "4">>
Str_bad == <<"x", ",", "y", ",", "z", "+", "1", "/", "2", "/", "3">>
\* strings with a character that is in no token: "x,y,z+q" and "w,y,z"
Str_unknown == <<"x", ",", "y", ",", "z", "+", "q">>
Str_novar == <<"w", ",", "y", ",", "z">>
\* two constants in one row: "x+1/4+1/2,y+0.25+1/2,z+1/2+0.25"
Str_twoconst == <<"x", "+", "1", "/", "4", "+", "1", "/", "2", ",",
                  "y", "+", "0", ".", "2", "5", "+", "1", "/", "2", ",",
                  "z", "+", "1", "/", "2", "+", "0", ".", "2", "5">>
SampleStrings ==
    {Str_xyz, Str_body, Str_doc, Str_screw, Str_bad, Str_unknown, Str_novar, Str_twoconst}

InversionCode == encode_symm_int(NegRotation(IdentityRotation), ZeroTranslation)
CodeSpace == NineDigits * Twelve * Twelve * Twelve
SampleCodes == {IdentityCode, InversionCode, IdentityCode + CodeSpace,
                encode_symm_int(TwoFoldB, <<0, Half, Half>>)}

\* translations handed to the constructor and to + and -: inside [0,1),
\* negative, above 1, and off the grid of twelfths
SampleConstructorTranslations ==
    {ZeroTranslation, <<Half, Half, Half>>, <<-Den \div 4, Den + Den \div 4, Den>>,
     <<5, -1, 2 * Den - 1>>}
SampleShifts ==
    {LATTICE_TYPE_TRANSLATIONS[2][1], LATTICE_TYPE_TRANSLATIONS[3][1],
     <<-(Den + Den \div 4), 2 * Den + Den \div 4, 0>>}

Made(call, raw) == [call |-> call, raw |-> raw]

\* before the object is made
SymInit ==
    /\ pc = "start"
    /\ op = None
    /\ made_by = None
    /\ cmp = None
    /\ codecIdle
    /\ sgIdle
    /\ crystalIdle
    /\ cellIdle

\* SymmetryOperation(rotation, translation)
New ==
    /\ pc = "start"
    /\ \E rot \in SampleRotations, trans \in SampleConstructorTranslations :
            /\ op' = SymmetryOperation(rot, trans)
            /\ made_by' = Made("init", trans)
            /\ pc' = "made"
            /\ UNCHANGED <<cmp, codecVars, sgVars, crystalVars, cellVars>>

\* SymmetryOperation.from_integer_code(code)
FromIntegerCode ==
    /\ pc = "start"
    /\ \E code \in SampleCodes :
            /\ op' = from_integer_code(code)
            /\ made_by' = Made("from_integer_code", decode_symm_int(code).translation)
            /\ pc' = "made"
            /\ UNCHANGED <<cmp, codecVars, sgVars, crystalVars, cellVars>>

\* SymmetryOperation.from_string_code(code); an exception makes no object
StringCodeResults == {from_string_code(code) : code \in SampleStrings}
FromStringCode ==
    /\ pc = "start"
    /\ \E s \in StringCodeResults :
            /\ op' = (IF IsError(s) THEN op ELSE s)
            /\ made_by' = (IF IsError(s)
                           THEN [call |-> "from_string_code", raised |-> s.error]
                           ELSE Made("from_string_code", s.translation))
            /\ pc' = (IF IsError(s) THEN "raised" ELSE "made")
            /\ UNCHANGED <<cmp, codecVars, sgVars, crystalVars, cellVars>>

\* op + value
Add ==
    /\ pc = "made"
    /\ \E value \in SampleShifts :
            /\ op' = sym_add(op, value)
            /\ made_by' = Made("add", AddVector(op.translation, value))
            /\ cmp' = None
            /\ UNCHANGED <<pc, codecVars, sgVars, crystalVars, cellVars>>

\* op - value
Sub ==
    /\ pc = "made"
    /\ \E value \in SampleShifts :
            /\ op' = sym_sub(op, value)
            /\ made_by' = Made("sub", SubVector(op.translation, value))
            /\ cmp' = None
            /\ UNCHANGED <<pc, codecVars, sgVars, crystalVars, cellVars>>

\* op.inverted()
Inverted ==
    /\ pc = "made"
    /\ op' = inverted(op)
    /\ made_by' = Made("inverted", NegVector(op.translation))
    /\ cmp' = None
    /\ UNCHANGED <<pc, codecVars, sgVars, crystalVars, cellVars>>

\* the operations op is compared with: itself, its inverse, and the
\* identity made from its code and from a code outside the canonical range
Comparands(s) ==
    {s, inverted(s), from_integer_code(IdentityCode),
     from_integer_code(IdentityCode + CodeSpace)}

\* op == other, op < other, other < op, hash(op), hash(other); reading
\* integer_code fills the cache of both objects
Compare ==
    /\ pc = "made"
    /\ \E other \in Comparands(op) :
            /\ cmp' = [other |-> AfterCodeRead(other),
                       eq |-> sym_eq(op, other),
                       lt |-> sym_lt(op, other),
                       gt |-> sym_lt(other, op),
                       hash_self |-> sym_hash(op),
                       hash_other |-> sym_hash(other)]
            /\ op' = AfterCodeRead(op)
            /\ UNCHANGED <<pc, made_by, codecVars, sgVars, crystalVars, cellVars>>

SymNext == New \/ FromIntegerCode \/ FromStringCode \/ Add \/ Sub \/ Inverted \/ Compare
SpecSym == SymInit /\ [][SymNext]_vars

InUnitInterval(v) == \A i \in Range3 : 0 <= v[i] /\ v[i] < Den

\* C9: in every reachable state the translation of a SymmetryOperation has
\* all three components in [0,1), however the operation was made (matrices,
\* integer code, string) and after any sequence of + t, - t and inverted();
\* + and - leave the rotation unchanged.
C9_TranslationReduced ==
    [][/\ op' # None => InUnitInterval(op'.translation)
       /\ made_by'.call \in {"add", "sub"} => op'.rotation = op.rotation]_vars

\* a subtraction whose raw result was negative in one component and above 1
\* in another
C9_Witness ==
    /\ pc = "made"
    /\ made_by.call = "sub"
    /\ \E i, j \in Range3 : made_by.raw[i] < 0 /\ made_by.raw[j] >= Den
    /\ op.translation = Mod1(made_by.raw)
    /\ op.translation # ZeroTranslation

\* C10: two SymmetryOperations compare equal iff their integer codes are
\* equal, equal operations have equal hashes, and < orders operations by
\* integer code (exactly one of a < b, a == b, b < a holds).
C10_CodeIsIdentity ==
    cmp # None =>
        /\ cmp.eq <=> (op.cached_code = cmp.other.cached_code)
        /\ cmp.eq => cmp.hash_self = cmp.hash_other
        /\ cmp.lt <=> (op.cached_code[1] < cmp.other.cached_code[1])
        /\ cmp.gt <=> (cmp.other.cached_code[1] < op.cached_code[1])
        /\ (IF cmp.lt THEN 1 ELSE 0) + (IF cmp.eq THEN 1 ELSE 0)
               + (IF cmp.gt THEN 1 ELSE 0) = 1

\* two operations with the same matrices and different integer codes (one
\* made from a code outside the canonical range) compare unequal
C10_Witness ==
    /\ cmp # None
    /\ ~cmp.eq
    /\ cmp.lt
    /\ op.rotation = cmp.other.rotation
    /\ op.translation = cmp.other.translation

(***************************************************************************)
(* Scenario 3: space groups.  A SpaceGroup is built from a number and a    *)
(* choice, identified from a list of operations, or read from CIF data;    *)
(* a built group is reduced, expanded again, identified from its reduced   *)
(* list, and written to and read back from a SHELX record.                 *)
(***************************************************************************)
SampleNumbers == TableNumbers \cup {MinNumber - 1, MaxNumber + 1}
SampleChoices == {"", "H", "R", "X"}

FullList(k) == FromSgdata(SgTable[k]).symmetry_operations
TableLatt(k) == latt(FromSgdata(SgTable[k]))
ReducedList(k) == reduced_symmetry_list(FullList(k), TableLatt(k))

Reverse(list) == [k \in 1..Len(list) |-> list[Len(list) + 1 - k]]
\* an operation of no setting in the table: a two-fold axis shifted by 1/4
UnknownOp == SymmetryOperation(TwoFoldB, <<Den \div 4, 0, 0>>)

\* a full list as it is, permuted, without its first operation, with an
\* unknown operation added, and with its first operation twice
ListVariants(full) ==
    {full, Reverse(full), Tail(full), Append(full, UnknownOp), Append(full, full[1])}

SampleLatts(k) == {TableLatt(k), -TableLatt(k), 0, MinLatt, MaxLatt}

SampleIdentifyInputs ==
    {[symops |-> v, expand_latt |-> <<>>] :
        v \in UNION {ListVariants(FullList(k)) : k \in TableIndex}}
    \cup UNION {{[symops |-> v, expand_latt |-> <<l>>] :
                    v \in {ReducedList(k), Tail(ReducedList(k))}, l \in SampleLatts(k)} :
                k \in TableIndex}

\* the operations of P21/n, a setting of number 14 the table does not hold
P21n ==
    <<identity,
      SymmetryOperation(TwoFoldB, <<Half, Half, Half>>),
      from_integer_code(InversionCode),
      SymmetryOperation(NegRotation(TwoFoldB), <<Half, Half, Half>>)>>
Strings(list) == [k \in 1..Len(list) |-> sym_str(list[k])]

SampleXyz ==
    {<<>>, <<Strings(FullList(2))>>, <<Strings(Reverse(FullList(5)))>>,
     <<Strings(P21n)>>, <<Strings(Tail(P21n))>>, <<<<Str_xyz, Str_bad>>>>}
SampleCifData ==
    [number : {<<>>, <<14>>, <<MaxNumber + 1>>},
     xyz : SampleXyz,
     name : {<<>>, <<"P21/n">>}]

ConstructResults ==
    {[number |-> n, choice |-> c, out |-> SpaceGroup(n, c)] :
        n \in SampleNumbers, c \in SampleChoices}
IdentifyResults ==
    {[in |-> i, out |-> from_symmetry_operations(i.symops, i.expand_latt)] :
        i \in SampleIdentifyInputs}
CifResults == {[in |-> c, out |-> cif_space_group(c)] : c \in SampleCifData}

SgInit ==
    /\ pc = "start"
    /\ sgIdle
    /\ codecIdle
    /\ symIdle
    /\ crystalIdle
    /\ cellIdle

\* SpaceGroup(number, choice)
Construct ==
    /\ pc = "start"
    /\ \E r \in ConstructResults :
            /\ sg_call' = [call |-> "SpaceGroup", number |-> r.number,
                           choice |-> r.choice, raised |-> IsError(r.out)]
            /\ space_group' = (IF IsError(r.out) THEN space_group ELSE r.out)
            /\ pc' = (IF IsError(r.out) THEN "raised" ELSE "built")
            /\ UNCHANGED <<symops, found, expanded, shelx, codecVars, symVars, crystalVars, cellVars>>

\* SpaceGroup.from_symmetry_operations(symops, expand_latt) on a list the
\* caller made
FromSymmetryOperations ==
    /\ pc = "start"
    /\ \E r \in IdentifyResults :
            /\ sg_call' = [call |-> "from_symmetry_operations",
                           symops |-> r.in.symops, expand_latt |-> r.in.expand_latt]
            /\ symops' = r.out.symops
            /\ found' = r.out.result
            /\ pc' = (IF IsSpaceGroup(r.out.result) THEN "identified" ELSE "raised")
            /\ UNCHANGED <<space_group, expanded, shelx, codecVars, symVars, crystalVars, cellVars>>

\* Crystal.from_cif_data(cif_data)
FromCifData ==
    /\ pc = "start"
    /\ \E r \in CifResults :
            /\ sg_call' = [call |-> "from_cif_data", cif_data |-> r.in]
            /\ space_group' = (IF IsError(r.out) THEN space_group ELSE r.out)
            /\ found' = (IF IsError(r.out) THEN r.out ELSE found)
            /\ pc' = (IF IsError(r.out) THEN "raised" ELSE "loaded")
            /\ UNCHANGED <<symops, expanded, shelx, codecVars, symVars, crystalVars, cellVars>>

\* symops = space_group.reduced_symmetry_operations()
ReducedSymmetryOperations ==
    /\ pc \in {"built", "loaded"}
    /\ symops' = reduced_symmetry_operations(space_group)
    /\ sg_call' = [call |-> "reduced_symmetry_operations"]
    /\ pc' = "reduced"
    /\ UNCHANGED <<space_group, found, expanded, shelx, codecVars, symVars, crystalVars, cellVars>>

\* expanded = expanded_symmetry_list(symops, space_group.latt)
ExpandedSymmetryList ==
    /\ pc = "reduced"
    /\ expanded' = expanded_symmetry_list(symops, latt(space_group)).full_symops
    /\ symops' = expanded_symmetry_list(symops, latt(space_group)).reduced_symops
    /\ sg_call' = [call |-> "expanded_symmetry_list", symops |-> symops,
                   lattice_type |-> latt(space_group)]
    /\ pc' = "expanded"
    /\ UNCHANGED <<space_group, found, shelx, codecVars, symVars, crystalVars, cellVars>>

\* SpaceGroup.from_symmetry_operations(symops, expand_latt=space_group.latt)
IdentifyReduced ==
    /\ pc = "reduced"
    /\ found' = from_symmetry_operations(symops, <<latt(space_group)>>).result
    /\ symops' = from_symmetry_operations(symops, <<latt(space_group)>>).symops
    /\ sg_call' = [call |-> "from_symmetry_operations", symops |-> symops,
                   expand_latt |-> <<latt(space_group)>>]
    /\ pc' = "reidentified"
    /\ UNCHANGED <<space_group, expanded, shelx, codecVars, symVars, crystalVars, cellVars>>

\* Crystal.to_shelx_string()
ToShelxString ==
    /\ pc \in {"built", "loaded"}
    /\ shelx' = shelx_data(space_group)
    /\ sg_call' = [call |-> "to_shelx_string"]
    /\ pc' = "saved"
    /\ UNCHANGED <<space_group, symops, found, expanded, codecVars, symVars, crystalVars, cellVars>>

\* Crystal.from_shelx_string(...) on the record that was written
FromShelxString ==
    /\ pc = "saved"
    /\ found' = shelx_space_group(shelx)
    /\ sg_call' = [call |-> "from_shelx_string"]
    /\ pc' = "reloaded"
    /\ UNCHANGED <<space_group, symops, expanded, shelx, codecVars, symVars, crystalVars, cellVars>>

\* lists handed to expanded_symmetry_list: a reduced list, with and without
\* its identity, and the empty list, each with every lattice code
SampleExpandLists ==
    {<<>>} \cup UNION {{ReducedList(k), Tail(ReducedList(k))} : k \in TableIndex}
SampleExpandLatts == (MinLatt + 1)..(MaxLatt - 1)
ExpandResults ==
    {[symops |-> v, lattice_type |-> l, out |-> expanded_symmetry_list(v, l)] :
        v \in SampleExpandLists, l \in SampleExpandLatts}

\* expanded_symmetry_list(symops, lattice_type) on a list the caller made
ExpandList ==
    /\ pc = "start"
    /\ \E r \in ExpandResults :
            /\ sg_call' = [call |-> "expanded_symmetry_list", symops |-> r.symops,
                           lattice_type |-> r.lattice_type]
            /\ expanded' = (IF IsError(r.out) THEN expanded ELSE r.out.full_symops)
            /\ symops' = (IF IsError(r.out) THEN r.symops ELSE r.out.reduced_symops)
            /\ found' = (IF IsError(r.out) THEN r.out ELSE found)
            /\ pc' = (IF IsError(r.out) THEN "raised" ELSE "expanded_list")
            /\ UNCHANGED <<space_group, shelx, codecVars, symVars, crystalVars, cellVars>>

\* full lists handed to reduced_symmetry_list: the list of a setting in the
\* order of the table and reversed, with the lattice code of the setting
ReduceResults ==
    UNION {{[full_symops |-> v, lattice_type |-> TableLatt(k),
             out |-> reduced_symmetry_list(v, TableLatt(k))] :
                v \in {FullList(k), Reverse(FullList(k))}} : k \in TableIndex}

\* reduced_symmetry_list(full_symops, lattice_type) on a list the caller made
ReduceList ==
    /\ pc = "start"
    /\ \E r \in ReduceResults :
            /\ sg_call' = [call |-> "reduced_symmetry_list", full_symops |-> r.full_symops,
                           lattice_type |-> r.lattice_type]
            /\ symops' = r.out
            /\ pc' = "reduced_list"
            /\ UNCHANGED <<space_group, found, expanded, shelx, codecVars, symVars,
                           crystalVars, cellVars>>

SgNext ==
    \/ Construct \/ FromSymmetryOperations \/ FromCifData
    \/ ReducedSymmetryOperations \/ ExpandedSymmetryList \/ IdentifyReduced
    \/ ToShelxString \/ FromShelxString \/ ExpandList \/ ReduceList
SpecSG == SgInit /\ [][SgNext]_vars

\* SpaceGroup.__eq__
sg_eq(a, b) ==
    /\ a.international_tables_number = b.international_tables_number
    /\ a.choice = b.choice

\* the table entries of a (number, choice), and the entries with a signature
EntriesOf(sg) ==
    {k \in TableIndex : /\ SgTable[k].number = sg.international_tables_number
                        /\ SgTable[k].choice = sg.choice}
EntriesWith(encoded) == {k \in TableIndex : SgTable[k].symops = encoded}

\* the operation list of sg is the table's list for its (number, choice)
IsCanonical(sg) ==
    \E k \in EntriesOf(sg) : Codes(sg.symmetry_operations) = SgTable[k].symops

LookedUp(call) ==
    IF call.expand_latt = <<>> THEN call.symops
    ELSE expanded_symmetry_list(call.symops, call.expand_latt[1]).full_symops
Expandable(call) ==
    call.expand_latt = <<>> \/ Abs(call.expand_latt[1]) \in DOMAIN LATTICE_TYPE_TRANSLATIONS

\* C4: from_symmetry_operations returns a SpaceGroup only when the sorted
\* tuple of the integer codes of the (optionally expanded) input equals
\* exactly one signature of the table; the group returned is that entry's
\* (number, choice) and its operations are the input's, one each; when the
\* sorted tuple is no signature (a subset, a superset, a duplicated or an
\* unknown operation) the call raises ValueError and returns no group.
C4_ExactSignature ==
    (pc \in {"identified", "raised", "reidentified"}
        /\ sg_call.call = "from_symmetry_operations") =>
        /\ IsSpaceGroup(found) =>
                /\ Expandable(sg_call)
                /\ Cardinality(EntriesWith(Signature(LookedUp(sg_call)))) = 1
                /\ EntriesOf(found) = EntriesWith(Signature(LookedUp(sg_call)))
                /\ Signature(found.symmetry_operations) = Signature(LookedUp(sg_call))
        /\ (Expandable(sg_call) /\ EntriesWith(Signature(LookedUp(sg_call))) = {}) =>
                found = ValueError
        /\ ~IsSpaceGroup(found) => IsError(found)

\* a list that holds every operation of a table setting and one of them
\* twice was refused
C4_Witness ==
    /\ pc = "raised"
    /\ sg_call.call = "from_symmetry_operations"
    /\ sg_call.expand_latt = <<>>
    /\ found = ValueError
    /\ Len(sg_call.symops) = Cardinality(CodeSet(sg_call.symops)) + 1
    /\ \E k \in TableIndex :
            CodeSet(sg_call.symops) = {SgTable[k].symops[m] : m \in 1..Len(SgTable[k].symops)}

\* from_cif_data found no signature for the operations of the CIF data
NonStandardCif(call) ==
    /\ call.call = "from_cif_data"
    /\ call.cif_data.xyz # <<>>
    /\ Signature(ParseAll(call.cif_data.xyz[1])) \notin SG_FROM_SYMOPS_keys

\* C5 as stated: every SpaceGroup object reached through SpaceGroup(number,
\* choice), from_symmetry_operations, from_cif_data or from_shelx_string
\* holds exactly the table's operation list for its (number, choice).
C5_AlwaysTableList ==
    /\ IsSpaceGroup(space_group) => IsCanonical(space_group)
    /\ IsSpaceGroup(found) => IsCanonical(found)

\* C5: a SpaceGroup object made by SpaceGroup(number, choice),
\* from_symmetry_operations or from_shelx_string, or by from_cif_data when the
\* CIF data have no operations or operations that match a signature, holds
\* exactly the table's operation list for its (number, choice); when the
\* operations of the CIF data match no signature, from_cif_data gives a
\* SpaceGroup with the number of the CIF data (1 if absent), the first
\* setting's choice, and the CIF operations as its list.
C5_TableListUnlessNonStandardCif ==
    [][/\ (IsSpaceGroup(found') /\ found' # found) => IsCanonical(found')
       /\ (IsSpaceGroup(space_group') /\ space_group' # space_group) =>
            IF NonStandardCif(sg_call')
            THEN /\ space_group'.symmetry_operations
                        = ParseAll(sg_call'.cif_data.xyz[1])
                 /\ sg_eq(space_group',
                          SpaceGroup(IF sg_call'.cif_data.number = <<>>
                                     THEN DefaultNumber
                                     ELSE sg_call'.cif_data.number[1], ""))
            ELSE IsCanonical(space_group')]_vars

\* CIF data with number 14 and the four operations of P21/n gave a
\* SpaceGroup numbered 14 whose list is not the table's list for P21/c
C5_Witness ==
    /\ pc = "loaded"
    /\ NonStandardCif(sg_call)
    /\ space_group.international_tables_number = 14
    /\ Len(space_group.symmetry_operations) = 4
    /\ ~IsCanonical(space_group)
    /\ space_group.symbol = "P21/n"


(***************************************************************************)
(* Scenario 4: a Crystal is constructed and its cached tables are asked    *)
(* for in any order.  pc is "start" before the constructor has run and     *)
(* "crystal" after.                                                        *)
(***************************************************************************)
CellLength == 3 * PerAngstrom
SampleCell == [lengths |-> <<CellLength, CellLength, CellLength>>]

\* a CIF that lists a setting of P21/n without x,y,z
NoIdentityCif ==
    [number |-> <<14>>, xyz |-> <<Strings(Tail(P21n))>>, name |-> <<"P21/n">>]

SampleSpaceGroups ==
    {SpaceGroup(1, ""), SpaceGroup(2, ""), SpaceGroup(14, ""),
     cif_space_group(NoIdentityCif)}

\* x = -7.5 in grid units
FarNegative == 0 - (7 * Den + Half)

SampleAsymmetricUnits ==
    {AsymmetricUnit(<<Hydrogen, Hydrogen>>, << <<5, 5, 5>>, <<7, 5, 5>> >>,
                    <<"H1", "H2">>, <<>>),
     AsymmetricUnit(<<Hydrogen>>, << <<1, 0, 0>> >>, <<"H1">>, <<>>),
     AsymmetricUnit(<<Hydrogen>>, << <<0, 0, 0>> >>, <<"H1">>, <<<<50>>>>),
     AsymmetricUnit(<<Hydrogen>>, << <<FarNegative, 2, 2>> >>, <<"H1">>, <<>>),
     AsymmetricUnit(<<Hydrogen, Hydrogen>>, << <<2, 2, 2>>, <<12, 11, 10>> >>,
                    <<"H1", "H2">>, <<<<50, FullOccupation>>>>),
     AsymmetricUnit(<<Hydrogen, Carbon>>, << <<2, 2, 2>>, <<2, 2, 2>> >>,
                    <<"H1", "C1">>, <<<<50, 50>>>>),
     AsymmetricUnit(<<Carbon, Hydrogen>>, << <<2, 3, 5>>, <<6, 3, 5>> >>,
                    <<"C1", "H1">>, <<>>),
     AsymmetricUnit(<<Hydrogen, Hydrogen>>, << <<2, 2, 2>>, <<2 + Den, 2, 2>> >>,
                    <<"H1", "H2">>, <<>>),
     AsymmetricUnit(<<Hydrogen>>, << <<0 - 50, 3, 5>> >>, <<"H1">>, <<>>),
     AsymmetricUnit(<<Hydrogen>>, << <<FarNegative, 0, 0>> >>, <<"H1">>, <<>>),
     AsymmetricUnit(<<Hydrogen, Hydrogen, Hydrogen>>,
                    << <<5, 5, 5>>, <<7, 5, 5>>, <<14, 5, 5>> >>,
                    <<"H1", "H2", "H3">>, <<>>),
     AsymmetricUnit(<<Hydrogen, Hydrogen>>, << <<1, 0, 0>>, <<6, 6, 6>> >>,
                    <<"H1", "H2">>, <<>>),
     AsymmetricUnit(<<Hydrogen, Hydrogen, Hydrogen>>,
                    << <<5, 5, 5>>, <<7, 5, 5>>, <<9, 5, 5>> >>,
                    <<"H1", "H2", "H3">>, <<<<50, 30, 20>>>>)}

SampleCoordinates ==
    {<< <<2, 2, 2>> >>, << <<1, 0, 0>>, <<5, 7, 11>> >>}

CrystalInit ==
    /\ pc = "start"
    /\ sgIdle
    /\ codecIdle
    /\ symIdle
    /\ crystalIdle
    /\ cellIdle

\* Crystal(unit_cell, space_group, asymmetric_unit)
NewCrystal ==
    /\ pc = "start"
    /\ \E sg \in SampleSpaceGroups, asym \in SampleAsymmetricUnits :
            crystal' = Crystal(SampleCell, sg, asym)
    /\ cr_call' = [call |-> "Crystal"]
    /\ returned' = None
    /\ pc' = "crystal"
    /\ UNCHANGED <<codecVars, symVars, sgVars, cellVars>>

\* crystal.space_group.apply_all_symops(coordinates)
ApplyAllSymops ==
    /\ pc = "crystal"
    /\ \E coordinates \in SampleCoordinates :
            /\ returned' = [call |-> "apply_all_symops",
                            stored |-> crystal.space_group.symmetry_operations,
                            coordinates |-> coordinates,
                            value |-> apply_all_symops(crystal.space_group, coordinates)]
            /\ cr_call' = [call |-> "apply_all_symops"]
    /\ crystal' = [crystal EXCEPT !.space_group = CodesRead(@)]
    /\ pc' = "crystal"
    /\ UNCHANGED <<codecVars, symVars, sgVars, cellVars>>

\* the arguments the calls are made with: the defaults and one other value
SampleTolerances == {ToleranceInverse, 10}
SampleBondTolerances == {BondTolerance, 0}
SampleNeighbouringCells == {DefaultNeighbouringCells, DefaultNeighbouringCells + 1}

\* crystal.unit_cell_atoms(tolerance)
UnitCellAtoms ==
    /\ pc = "crystal"
    /\ \E tolerance_inverse \in SampleTolerances :
         /\ \E c1 \in unit_cell_atoms(crystal, tolerance_inverse) :
                /\ crystal' = c1
                /\ returned' = [call |-> "unit_cell_atoms",
                                value |-> c1.unit_cell_atom_dict[1]]
         /\ cr_call' = [call |-> "unit_cell_atoms", tolerance |-> tolerance_inverse,
                        cached |-> crystal.unit_cell_atom_dict # Unset]
    /\ pc' = "crystal"
    /\ UNCHANGED <<codecVars, symVars, sgVars, cellVars>>

\* crystal.unit_cell_connectivity(tolerance, neighbouring_cells)
UnitCellConnectivity ==
    /\ pc = "crystal"
    /\ \E tolerance \in SampleBondTolerances, neighbouring_cells \in SampleNeighbouringCells :
         /\ \E c1 \in unit_cell_connectivity(crystal, tolerance, neighbouring_cells) :
                /\ crystal' = c1
                /\ returned' = [call |-> "unit_cell_connectivity",
                                value |-> c1.uc_graph[1]]
         /\ cr_call' = [call |-> "unit_cell_connectivity", tolerance |-> tolerance,
                        neighbouring_cells |-> neighbouring_cells,
                        cached |-> crystal.uc_graph # Unset]
    /\ pc' = "crystal"
    /\ UNCHANGED <<codecVars, symVars, sgVars, cellVars>>

\* crystal.unit_cell_molecules()
UnitCellMolecules ==
    /\ pc = "crystal"
    /\ \E c1 \in unit_cell_molecules(crystal) :
            /\ crystal' = c1
            /\ returned' = [call |-> "unit_cell_molecules",
                            value |-> c1.unit_cell_molecules[1]]
    /\ cr_call' = [call |-> "unit_cell_molecules",
                   cached |-> crystal.unit_cell_molecules # Unset]
    /\ pc' = "crystal"
    /\ UNCHANGED <<codecVars, symVars, sgVars, cellVars>>

\* crystal.symmetry_unique_molecules(bond_tolerance)
SymmetryUniqueMolecules ==
    /\ pc = "crystal"
    /\ \E bond_tolerance \in SampleBondTolerances :
         /\ \E c1 \in symmetry_unique_molecules(crystal, bond_tolerance) :
                /\ crystal' = c1
                /\ returned' = [call |-> "symmetry_unique_molecules",
                                value |-> c1.symmetry_unique_molecules[1]]
         /\ cr_call' = [call |-> "symmetry_unique_molecules",
                        bond_tolerance |-> bond_tolerance,
                        cached |-> crystal.symmetry_unique_molecules # Unset]
    /\ pc' = "crystal"
    /\ UNCHANGED <<codecVars, symVars, sgVars, cellVars>>

SampleRadii == {PerAngstrom \div 2, PerAngstrom}

\* crystal.molecule_surroundings(radius)
MoleculeSurroundings ==
    /\ pc = "crystal"
    /\ \E radius \in SampleRadii :
         /\ \E out \in molecule_surroundings(crystal, radius) :
                /\ crystal' = out.crystal
                /\ returned' = [call |-> "molecule_surroundings", value |-> out.results]
         /\ cr_call' = [call |-> "molecule_surroundings", radius |-> radius]
    /\ pc' = "crystal"
    /\ UNCHANGED <<codecVars, symVars, sgVars, cellVars>>

SampleBounds == {<< <<0, 0, 0>>, <<0, 0, 0>> >>, << <<-1, 0, 0>>, <<1, 0, 0>> >>}

\* crystal.slab(bounds)
Slab ==
    /\ pc = "crystal"
    /\ \E bounds \in SampleBounds :
         /\ \E out \in slab(crystal, bounds) :
                /\ crystal' = out.crystal
                /\ returned' = [call |-> "slab", value |-> out.slab]
         /\ cr_call' = [call |-> "slab", bounds |-> bounds]
    /\ pc' = "crystal"
    /\ UNCHANGED <<codecVars, symVars, sgVars, cellVars>>

\* cartesian origins: the corner of the cell and the point (5/24, 5/24, 5/24)
SampleOrigins == {<<0, 0, 0>>, <<5 * CellLength, 5 * CellLength, 5 * CellLength>>}

\* crystal.atoms_in_radius(radius, origin)
AtomsInRadius ==
    /\ pc = "crystal"
    /\ \E origin \in SampleOrigins :
         /\ \E out \in atoms_in_radius(crystal, PerAngstrom, origin) :
                /\ crystal' = out.crystal
                /\ returned' = [call |-> "atoms_in_radius", value |-> out.result]
         /\ cr_call' = [call |-> "atoms_in_radius", radius |-> PerAngstrom,
                        origin |-> origin]
    /\ pc' = "crystal"
    /\ UNCHANGED <<codecVars, symVars, sgVars, cellVars>>

CrystalNext ==
    \/ NewCrystal \/ ApplyAllSymops \/ UnitCellAtoms
    \/ UnitCellConnectivity \/ UnitCellMolecules \/ SymmetryUniqueMolecules
    \/ MoleculeSurroundings \/ Slab \/ AtomsInRadius
SpecCrystal == CrystalInit /\ [][CrystalNext]_vars

\* the sites the routine generates from the asymmetric unit, one row per
\* block and site
GeneratedSites(c) ==
    apply_all_symops(c.space_group, c.asymmetric_unit.positions).transformed

\* the occupation the asymmetric unit gives site k (from 0)
SourceOccupation(c, k) ==
    IF c.asymmetric_unit.occupation = <<>> THEN FullOccupation
    ELSE c.asymmetric_unit.occupation[1][k + 1]

\* the rows of a table that come from site k
RowsOf(asym_atom, k) == {r \in 1..Len(asym_atom) : asym_atom[r] = k}

\* C3: over the molecules symmetry_unique_molecules() returned, every
\* asymmetric unit index 0 .. nsites-1 occurs exactly once and no other
\* index occurs.
C3_EachIndexOnce ==
    (pc = "crystal" /\ crystal.symmetry_unique_molecules # Unset) =>
        \A mols \in {crystal.symmetry_unique_molecules[1]} :
            /\ \A k \in 0..(nsites(crystal) - 1) :
                  SumSeq([m \in 1..Len(mols) |->
                            Cardinality(RowsOf(mols[m].asymmetric_unit_atoms, k))]) = 1
            /\ \A m \in 1..Len(mols) :
                  AsymAtomsIn(mols[m]) \subseteq 0..(nsites(crystal) - 1)

\* the distance of two coordinates modulo the lattice, and whether two sites
\* are within 1 / tolerance_inverse of each other modulo the lattice
LatticeGap(x, y) ==
    IF PyMod(x - y, Den) <= Den - PyMod(x - y, Den) THEN PyMod(x - y, Den)
    ELSE Den - PyMod(x - y, Den)
WithinTolerance(a, b, tolerance_inverse) ==
    LatticeGap(a[1], b[1]) * LatticeGap(a[1], b[1])
        + LatticeGap(a[2], b[2]) * LatticeGap(a[2], b[2])
        + LatticeGap(a[3], b[3]) * LatticeGap(a[3], b[3])
      <= (Den * Den) \div (tolerance_inverse * tolerance_inverse)
NoSitesWithin(c, tolerance_inverse) ==
    \A sites \in {GeneratedSites(c)} :
        \A r1, r2 \in 1..Len(sites) :
            r1 < r2 => ~WithinTolerance(sites[r1], sites[r2], tolerance_inverse)

\* the tolerance a step that fills _unit_cell_atom_dict computes it with:
\* the argument of unit_cell_atoms, the default when slab() makes the call
ToleranceOf(call) ==
    IF call.call = "unit_cell_atoms" THEN call.tolerance ELSE ToleranceInverse

\* the table d holds every generated site of crystal c with its source values
EveryRowKept(c, d) ==
    /\ Len(d.frac_pos) = nsites(c) * Len(c.space_group.symmetry_operations)
    /\ Len(d.asym_atom) = Len(d.frac_pos)
    /\ Len(d.occupation) = Len(d.frac_pos)
    /\ Len(d.element) = Len(d.frac_pos)
    /\ Len(d.symop) = Len(d.frac_pos)
    /\ \A k \in 0..(nsites(c) - 1) :
          Cardinality(RowsOf(d.asym_atom, k)) = Len(c.space_group.symmetry_operations)
    /\ \A r \in 1..Len(d.frac_pos) :
          /\ d.asym_atom[r] \in 0..(nsites(c) - 1)
          /\ d.occupation[r] = SourceOccupation(c, d.asym_atom[r])
          /\ d.element[r] = c.asymmetric_unit.atomic_numbers[d.asym_atom[r] + 1]

\* C6: when no two generated sites lie within the merge tolerance of each
\* other, the table unit_cell_atoms() computes has nsites *
\* len(symmetry_operations) rows, every site has one row per operation, and
\* every row carries the occupation of its asymmetric unit site.
C6_NoMergeKeepsEveryRow ==
    [][(/\ pc = "crystal"
        /\ crystal.unit_cell_atom_dict = Unset
        /\ crystal'.unit_cell_atom_dict # Unset
        /\ NoSitesWithin(crystal', ToleranceOf(cr_call')))
       => EveryRowKept(crystal', crystal'.unit_cell_atom_dict[1])]_vars

\* a table without merges: two sites, one partly occupied, several operations
C6_Witness ==
    /\ pc = "crystal"
    /\ cr_call.call = "unit_cell_atoms"
    /\ ~cr_call.cached
    /\ cr_call.tolerance = ToleranceInverse
    /\ NoSitesWithin(crystal, ToleranceInverse)
    /\ nsites(crystal) = 2
    /\ Len(crystal.space_group.symmetry_operations) > 1
    /\ Len(crystal.unit_cell_atom_dict[1].frac_pos)
          = 2 * Len(crystal.space_group.symmetry_operations)
    /\ \E r \in 1..Len(crystal.unit_cell_atom_dict[1].occupation) :
          crystal.unit_cell_atom_dict[1].occupation[r] < FullOccupation

\* C7: every coordinate of the frac_pos table of unit_cell_atoms() lies in
\* [0, 1), whatever the asymmetric unit positions and the operations are.
C7_FracPosInUnitInterval ==
    (pc = "crystal" /\ crystal.unit_cell_atom_dict # Unset) =>
        \A d \in {crystal.unit_cell_atom_dict[1]} :
            \A r \in 1..Len(d.frac_pos) : \A i \in Range3 :
                0 <= d.frac_pos[r][i] /\ d.frac_pos[r][i] < Den

HasIdentity(ops) == \E k \in 1..Len(ops) : integer_code(ops[k]) = IdentityCode

\* block k (from 1) of a result of apply_all_symops is the image under s
BlockIs(value, coordinates, k, s) ==
    \A r \in 1..Len(coordinates) :
        /\ value.generator_symop[(k - 1) * Len(coordinates) + r] = integer_code(s)
        /\ value.transformed[(k - 1) * Len(coordinates) + r] = apply(s, coordinates[r])

\* the layout of a result of apply_all_symops for the stored list and N
\* coordinates: N * len(ops) rows, the first block with code 16484 and the
\* positions unchanged, every block the image under one stored operation
\* with its code in every row, each stored operation with exactly one block
BlocksPerOperation(stored, coordinates, value) ==
    /\ Len(value.generator_symop) = Len(coordinates) * Len(stored)
    /\ Len(value.transformed) = Len(coordinates) * Len(stored)
    /\ \A r \in 1..Len(coordinates) :
          /\ value.generator_symop[r] = IdentityCode
          /\ value.transformed[r] = coordinates[r]
    /\ \E f \in Permutations(1..Len(stored)) :
          /\ integer_code(stored[f[1]]) = IdentityCode
          /\ \A k \in 1..Len(stored) : BlockIs(value, coordinates, k, stored[f[k]])

\* C8: apply_all_symops on N positions returns N * len(ops) rows in blocks
\* of N: block 0 is the identity image (code 16484, positions unchanged),
\* every other block is the image under one stored operation with its code
\* in every row, and each stored operation has exactly one block.
C8_BlocksPerOperation ==
    (pc = "crystal" /\ cr_call.call = "apply_all_symops") =>
        BlocksPerOperation(returned.stored, returned.coordinates, returned.value)

\* the layout for the stored lists that hold the identity, wherever it is
BlocksWhenIdentityStored ==
    (pc = "crystal" /\ cr_call.call = "apply_all_symops" /\ HasIdentity(returned.stored)) =>
        BlocksPerOperation(returned.stored, returned.coordinates, returned.value)

\* two positions through a list whose identity is not the first operation
IdentityNotFirst ==
    /\ pc = "crystal"
    /\ cr_call.call = "apply_all_symops"
    /\ HasIdentity(returned.stored)
    /\ integer_code(returned.stored[1]) # IdentityCode
    /\ Len(returned.stored) = 4
    /\ Len(returned.coordinates) = 2

\* C12: on one Crystal, whatever the order of the calls to unit_cell_atoms,
\* unit_cell_connectivity, unit_cell_molecules and symmetry_unique_molecules
\* and whatever their arguments, a cached result is never replaced and every
\* call returns the cached result, that is the value the first call of the
\* operation computed.
C12_CachedResultsKept ==
    [][pc = "crystal" =>
        /\ crystal.unit_cell_atom_dict # Unset
              => crystal'.unit_cell_atom_dict = crystal.unit_cell_atom_dict
        /\ crystal.uc_graph # Unset => crystal'.uc_graph = crystal.uc_graph
        /\ crystal.unit_cell_molecules # Unset
              => crystal'.unit_cell_molecules = crystal.unit_cell_molecules
        /\ crystal.symmetry_unique_molecules # Unset
              => crystal'.symmetry_unique_molecules = crystal.symmetry_unique_molecules
        /\ cr_call'.call = "unit_cell_atoms"
              => returned'.value = crystal'.unit_cell_atom_dict[1]
        /\ cr_call'.call = "unit_cell_connectivity"
              => returned'.value = crystal'.uc_graph[1]
        /\ cr_call'.call = "unit_cell_molecules"
              => returned'.value = crystal'.unit_cell_molecules[1]
        /\ cr_call'.call = "symmetry_unique_molecules"
              => returned'.value = crystal'.symmetry_unique_molecules[1]]_vars

\* a second call of unit_cell_atoms, with a tolerance that would merge sites,
\* has returned the table of the first call
C12_Witness ==
    /\ pc = "crystal"
    /\ cr_call.call = "unit_cell_atoms"
    /\ cr_call.cached
    /\ cr_call.tolerance # ToleranceInverse
    /\ returned.value = crystal.unit_cell_atom_dict[1]
    /\ returned.value \notin
          {x.unit_cell_atom_dict[1] : x \in unit_cell_atoms_computed(crystal, cr_call.tolerance)}

\* C13: encode_symm_int fails with an error, that is returns no integer code,
\* when a rotation entry is outside {-1,0,1} or a translation component is
\* not a multiple of 1/12.
C13_InvalidInputFails ==
    (pc = "encoded" /\ (rotation \notin AllRotations \/ translation \notin AllTwelfths))
        => coded \notin Int

\* the characters a symmetry string is made of: signs, the variables, the
\* characters of decimal and p/q constants, the row separator and blanks
TokenChars == SignChars \cup SymbolChars \cup {",", " "}
HasUnrecognizedToken(s) == \E k \in 1..Len(s) : LowerChar(s[k]) \notin TokenChars

\* C14: from_string_code never returns an operation for a string that holds
\* an unrecognized token (a term that is neither a signed x, y or z nor a
\* decimal or p/q constant); it fails with an error.
C14_UnrecognizedTokenFails ==
    (pc = "made" /\ made_by.call = "from_string_code" /\ op.string_code # Unset)
        => ~HasUnrecognizedToken(op.string_code[1])

\* C15: from_symmetry_operations(symops, expand_latt=L) raises a ValueError
\* for every L outside [-7,7], and for every L inside [-7,7] a centering
\* translation set exists and the expansion is carried out (no KeyError).
C15_LattCodesSupported ==
    (/\ pc \in {"identified", "raised", "reidentified"}
     /\ sg_call.call = "from_symmetry_operations"
     /\ sg_call.expand_latt # <<>>) =>
        LET L == sg_call.expand_latt[1]
        IN  /\ ~(MinLatt < L /\ L < MaxLatt) => found = ValueError
            /\ (MinLatt < L /\ L < MaxLatt) =>
                  /\ Abs(L) \in DOMAIN LATTICE_TYPE_TRANSLATIONS
                  /\ found # KeyError

\* the value of one token of a row as a constant term: 0 for a variable
IsVariable(symbol) == HasChar(symbol, "x") \/ HasChar(symbol, "y") \/ HasChar(symbol, "z")
ConstantValue(symbol) ==
    IF IsVariable(symbol) THEN 0
    ELSE IF HasChar(symbol, "/")
    THEN ToGrid(ParseFraction(Split(symbol, "/")[1]).num * ParseFraction(Split(symbol, "/")[2]).den,
                ParseFraction(Split(symbol, "/")[1]).den * ParseFraction(Split(symbol, "/")[2]).num)
    ELSE ToGrid(ParseFraction(symbol).num, ParseFraction(symbol).den)
RowConstantSum(row) ==
    SumSeq([k \in 1..Len(FindAllSymbols(row)) |-> ConstantValue(FindAllSymbols(row)[k])])
RowsOfString(s) == Split(RemoveSpaces(Lower(s)), ",")

\* C16: the translation component of each row of a decoded string is the
\* sum, reduced modulo 1, of all constant terms of the row, decimals and
\* p/q fractions alike, however many there are.
C16_TranslationIsSumOfConstants ==
    (pc = "made" /\ made_by.call = "from_string_code" /\ op.string_code # Unset) =>
        \A i \in 1..Len(RowsOfString(op.string_code[1])) :
            op.translation[i] = PyMod(RowConstantSum(RowsOfString(op.string_code[1])[i]), Den)

\* the rows with one constant, or a fraction followed by a decimal, are sums
SumWhenFractionFirst ==
    (pc = "made" /\ made_by.call = "from_string_code" /\ op.string_code # Unset) =>
        \A i \in 1..Len(RowsOfString(op.string_code[1])) :
            \/ op.translation[i] = PyMod(RowConstantSum(RowsOfString(op.string_code[1])[i]), Den)
            \/ \E k \in 2..Len(FindAllSymbols(RowsOfString(op.string_code[1])[i])) :
                  HasChar(FindAllSymbols(RowsOfString(op.string_code[1])[i])[k], "/")

(***************************************************************************)
(* class UnitCell: the cell type.  Lengths are integers in units of 1e-5   *)
(* Angstrom and angles integers in units of 1e-5 degree, so that the       *)
(* tolerances of numpy.allclose (rtol 1e-5, atol 1e-8) separate values of  *)
(* the grid: close(x, y) is |x - y| <= atol + rtol * |y|.                  *)
(***************************************************************************)
RtolInverse == 100000      \* 1 / rtol
LengthAtol == 100          \* atol / rtol in length units: 1e-8 A = 1e-3 unit
AngleAtol == 5729          \* atol / rtol in angle units: 1e-8 rad = 0.0573 unit
RightAngle == 9000000      \* pi / 2
HexagonalAngle == 12000000 \* 2 * pi / 3
EyeLength == 100000        \* the rows of np.eye(3) have length 1

close(x, y, atol) == Abs(x - y) <= (atol + Abs(y)) \div RtolInverse

a_of(uc) == uc.lengths[1]
b_of(uc) == uc.lengths[2]
c_of(uc) == uc.lengths[3]
alpha_of(uc) == uc.angles[1]
beta_of(uc) == uc.angles[2]
gamma_of(uc) == uc.angles[3]

abc_equal(uc) == \A i \in Range3 : close(uc.lengths[i] - uc.lengths[1], 0, LengthAtol)
abc_different(uc) ==
    ~(\/ close(a_of(uc), b_of(uc), LengthAtol)
      \/ close(a_of(uc), c_of(uc), LengthAtol)
      \/ close(b_of(uc), c_of(uc), LengthAtol))
orthogonal(uc) == \A i \in Range3 : close(Abs(uc.angles[i]) - RightAngle, 0, AngleAtol)

is_monoclinic(uc) == close(alpha_of(uc), gamma_of(uc), AngleAtol) /\ abc_different(uc)
is_cubic(uc) == abc_equal(uc) /\ orthogonal(uc)
is_orthorhombic(uc) == orthogonal(uc) /\ abc_different(uc)
is_tetragonal(uc) ==
    /\ close(a_of(uc), b_of(uc), LengthAtol)
    /\ ~close(a_of(uc), c_of(uc), LengthAtol)
    /\ orthogonal(uc)
is_rhombohedral(uc) ==
    /\ abc_equal(uc)
    /\ \A i \in Range3 : close(uc.angles[i] - uc.angles[1], 0, AngleAtol)
    /\ ~close(alpha_of(uc), RightAngle, AngleAtol)
is_hexagonal(uc) ==
    /\ close(a_of(uc), b_of(uc), LengthAtol)
    /\ ~close(a_of(uc), c_of(uc), LengthAtol)
    /\ \A i \in 1..2 : close(uc.angles[i], RightAngle, AngleAtol)
    /\ close(gamma_of(uc), HexagonalAngle, AngleAtol)

CellType(uc, index, name, parameters) ==
    [uc EXCEPT !.cell_type_index = index, !.cell_type = name,
               !.unique_parameters = parameters]

\* set_cell_type with the monoclinic test before the orthorhombic one
set_cell_type_monoclinic_first(uc) ==
    IF is_cubic(uc) THEN CellType(uc, 6, "cubic", <<a_of(uc)>>)
    ELSE IF is_rhombohedral(uc)
    THEN CellType(uc, 4, "rhombohedral", <<a_of(uc), alpha_of(uc)>>)
    ELSE IF is_hexagonal(uc) THEN CellType(uc, 5, "hexagonal", <<a_of(uc), c_of(uc)>>)
    ELSE IF is_tetragonal(uc) THEN CellType(uc, 3, "tetragonal", <<a_of(uc), c_of(uc)>>)
    ELSE IF is_monoclinic(uc)
    THEN CellType(uc, 1, "monoclinic", <<a_of(uc), b_of(uc), c_of(uc), beta_of(uc)>>)
    ELSE IF is_orthorhombic(uc)
    THEN CellType(uc, 2, "orthorhombic", <<a_of(uc), b_of(uc), c_of(uc)>>)
    ELSE CellType(uc, 0, "triclinic",
                  <<a_of(uc), b_of(uc), c_of(uc), alpha_of(uc), beta_of(uc), gamma_of(uc)>>)

set_cell_type(uc) ==
    IF is_cubic(uc) THEN CellType(uc, 6, "cubic", <<a_of(uc)>>)
    ELSE IF is_rhombohedral(uc)
    THEN CellType(uc, 4, "rhombohedral", <<a_of(uc), alpha_of(uc)>>)
    ELSE IF is_hexagonal(uc) THEN CellType(uc, 5, "hexagonal", <<a_of(uc), c_of(uc)>>)
    ELSE IF is_tetragonal(uc) THEN CellType(uc, 3, "tetragonal", <<a_of(uc), c_of(uc)>>)
    ELSE IF is_orthorhombic(uc)
    THEN CellType(uc, 2, "orthorhombic", <<a_of(uc), b_of(uc), c_of(uc)>>)
    ELSE IF is_monoclinic(uc)
    THEN CellType(uc, 1, "monoclinic", <<a_of(uc), b_of(uc), c_of(uc), beta_of(uc)>>)
    ELSE CellType(uc, 0, "triclinic",
                  <<a_of(uc), b_of(uc), c_of(uc), alpha_of(uc), beta_of(uc), gamma_of(uc)>>)

\* the lengths, angles and cell type that set_lengths_and_angles assigns
set_lengths_and_angles(uc, lengths, angles) ==
    set_cell_type([uc EXCEPT !.lengths = lengths, !.angles = angles])

\* UnitCell(np.eye(3)): set_vectors gives unit lengths and right angles
UnitCellEye ==
    set_cell_type([lengths |-> <<EyeLength, EyeLength, EyeLength>>,
                   angles |-> <<RightAngle, RightAngle, RightAngle>>,
                   cell_type_index |-> NoInt, cell_type |-> "", unique_parameters |-> <<>>])

\* from_lengths_and_angles(lengths, angles)
from_lengths_and_angles(lengths, angles) == set_lengths_and_angles(UnitCellEye, lengths, angles)

(***************************************************************************)
(* Scenario 5: one UnitCell.  It is made by from_lengths_and_angles and    *)
(* then given new lengths and angles.  The sample values hold lengths and  *)
(* angles that differ by less than the relative tolerance but more than    *)
(* the absolute one.                                                       *)
(***************************************************************************)
FiveAngstrom == 5 * EyeLength
SampleLengths == {FiveAngstrom, FiveAngstrom + 3, 7 * EyeLength, 9 * EyeLength}
SampleAngles == {RightAngle, RightAngle + 50, RightAngle - 3000000, HexagonalAngle}
SampleResetLengths ==
    {<<FiveAngstrom, FiveAngstrom, FiveAngstrom>>, <<FiveAngstrom, 7 * EyeLength, 9 * EyeLength>>}
SampleResetAngles ==
    {<<RightAngle, RightAngle, RightAngle>>, <<-RightAngle, RightAngle, -RightAngle>>,
     <<RightAngle, HexagonalAngle, RightAngle>>}

CellInit ==
    /\ pc = "start"
    /\ cellIdle
    /\ codecIdle
    /\ symIdle
    /\ sgIdle
    /\ crystalIdle

FromLengthsAndAngles ==
    /\ pc = "start"
    /\ \E lengths \in [Range3 -> SampleLengths], angles \in [Range3 -> SampleAngles] :
            unitcell' = from_lengths_and_angles(lengths, angles)
    /\ pc' = "cell"
    /\ UNCHANGED <<codecVars, symVars, sgVars, crystalVars>>

SetLengthsAndAngles ==
    /\ pc = "cell"
    /\ \E lengths \in SampleResetLengths, angles \in SampleResetAngles :
            unitcell' = set_lengths_and_angles(unitcell, lengths, angles)
    /\ pc' = "cell"
    /\ UNCHANGED <<codecVars, symVars, sgVars, crystalVars>>

CellNext == FromLengthsAndAngles \/ SetLengthsAndAngles
SpecCell == CellInit /\ [][CellNext]_vars

\* the classes in the order of the claim, and what each stands for
CellTypeOrder ==
    <<"cubic", "rhombohedral", "hexagonal", "tetragonal", "orthorhombic", "monoclinic">>
PredicateHolds(uc, name) ==
    CASE name = "cubic" -> is_cubic(uc)
      [] name = "rhombohedral" -> is_rhombohedral(uc)
      [] name = "hexagonal" -> is_hexagonal(uc)
      [] name = "tetragonal" -> is_tetragonal(uc)
      [] name = "orthorhombic" -> is_orthorhombic(uc)
      [] name = "monoclinic" -> is_monoclinic(uc)
FirstClass(uc) ==
    LET holding == {k \in 1..Len(CellTypeOrder) : PredicateHolds(uc, CellTypeOrder[k])}
    IN  IF holding = {} THEN "triclinic"
        ELSE CellTypeOrder[CHOOSE k \in holding : \A m \in holding : k <= m]
ParameterCount(name) ==
    CASE name = "cubic" -> 1
      [] name \in {"rhombohedral", "hexagonal", "tetragonal"} -> 2
      [] name = "orthorhombic" -> 3
      [] name = "monoclinic" -> 4
      [] name = "triclinic" -> 6
IndexOfType(name) ==
    CASE name = "triclinic" -> 0 [] name = "monoclinic" -> 1 [] name = "orthorhombic" -> 2
      [] name = "tetragonal" -> 3 [] name = "rhombohedral" -> 4 [] name = "hexagonal" -> 5
      [] name = "cubic" -> 6

\* C17: set_cell_type assigns the first class, in the order cubic,
\* rhombohedral, hexagonal, tetragonal, orthorhombic, monoclinic, whose
\* predicate holds, and triclinic when none holds; cell_type_index and the
\* number of unique_parameters (1, 2, 2, 2, 3, 4, 6) correspond to it.
C17_FirstMatchingCellType ==
    pc = "cell" =>
        /\ unitcell.cell_type = FirstClass(unitcell)
        /\ unitcell.cell_type_index = IndexOfType(unitcell.cell_type)
        /\ Len(unitcell.unique_parameters) = ParameterCount(unitcell.cell_type)

\* a cell for which both the orthorhombic and the monoclinic predicate hold
C17_Witness ==
    /\ pc = "cell"
    /\ is_orthorhombic(unitcell)
    /\ is_monoclinic(unitcell)
    /\ unitcell.cell_type = "orthorhombic"
    /\ Len(unitcell.unique_parameters) = 3

\* the slab rows the surrounding set of a molecule is to hold: within radius
\* of at least one atom of the molecule and coinciding with none
CoincidesWithMolecule(mol, p) == \E k \in 1..Len(mol.positions) : mol.positions[k] = p
NearMolecule(mol, p, radius) ==
    \E k \in 1..Len(mol.positions) : InBall(p, mol.positions[k], radius * Den)
ExpectedSurroundings(c, mol, radius) ==
    TheOne({TheOne({[elements |-> Take(sl.element, rows), positions |-> Take(sl.cart_pos, rows)] :
                rows \in {Ascending({r \in 1..Len(sl.cart_pos) :
                                        /\ NearMolecule(mol, sl.cart_pos[r], radius)
                                        /\ ~CoincidesWithMolecule(mol, sl.cart_pos[r])})}}) :
        sl \in {x.slab : x \in slab(c, surroundings_bounds(c, mol.positions, radius))}})
SurroundingsAsClaimed(c, result, radius) ==
    /\ \A k \in 1..Len(result.positions) : ~CoincidesWithMolecule(result.mol, result.positions[k])
    /\ result.elements = ExpectedSurroundings(c, result.mol, radius).elements
    /\ result.positions = ExpectedSurroundings(c, result.mol, radius).positions

\* C18: for every molecule returned by molecule_surroundings(radius) the
\* surrounding set is the set of slab atoms within radius of at least one
\* atom of the molecule minus every slab atom that coincides with an atom of
\* the molecule; no atom of the molecule is in its own surrounding set.
C18_OwnAtomsExcluded ==
    (pc = "crystal" /\ cr_call.call = "molecule_surroundings") =>
        \A m \in 1..Len(returned.value) :
            SurroundingsAsClaimed(crystal, returned.value[m], cr_call.radius)

\* the same when every row of the unit cell table lies in [0,1)
SurroundingsInsideCell ==
    (/\ pc = "crystal"
     /\ cr_call.call = "molecule_surroundings"
     /\ \A r \in 1..Len(crystal.unit_cell_atom_dict[1].frac_pos) :
            InUnitInterval(crystal.unit_cell_atom_dict[1].frac_pos[r])) =>
        \A m \in 1..Len(returned.value) :
            SurroundingsAsClaimed(crystal, returned.value[m], cr_call.radius)

\* a molecule of two atoms that are within radius of each other, with a
\* surrounding set that is not empty
SurroundingsInsideCellReached ==
    /\ pc = "crystal"
    /\ cr_call.call = "molecule_surroundings"
    /\ \A r \in 1..Len(crystal.unit_cell_atom_dict[1].frac_pos) :
            InUnitInterval(crystal.unit_cell_atom_dict[1].frac_pos[r])
    /\ \E m \in 1..Len(returned.value) :
            /\ Len(returned.value[m].mol.positions) = 2
            /\ InBall(returned.value[m].mol.positions[1], returned.value[m].mol.positions[2],
                      cr_call.radius * Den)
            /\ returned.value[m].positions # <<>>

\* the number of centering translations of a lattice type: 0 for P, 1 for
\* I, A, B and C, 2 for R and 3 for F
CenteringCount(lattice_type_value) ==
    CASE lattice_type_value = 1 -> 0
      [] lattice_type_value \in {2, 5, 6, 7} -> 1
      [] lattice_type_value = 3 -> 2
      [] lattice_type_value = 4 -> 3
IsIdentityOp(s) == s.rotation = IdentityRotation /\ s.translation = ZeroTranslation
IdentityAppended(list) ==
    IF \E n \in 1..Len(list) : IsIdentityOp(list[n]) THEN list ELSE Append(list, identity)
\* element n of the centred sequence of the list: the operation, or its copy
\* moved by a centering translation
CentredElement(list, translations, n) ==
    LET o == list[((n - 1) \div (1 + Len(translations))) + 1]
        j == (n - 1) % (1 + Len(translations))
    IN  IF j = 0 THEN [rotation |-> o.rotation, translation |-> o.translation]
        ELSE [rotation |-> o.rotation,
              translation |-> Mod1(AddVector(o.translation, translations[j]))]
InversionOf(s) ==
    [rotation |-> NegRotation(s.rotation), translation |-> Mod1(NegVector(s.translation))]
Matrices(s) == [rotation |-> s.rotation, translation |-> s.translation]

\* C19: expanded_symmetry_list(reduced, latt) returns, for R' (R with the
\* identity appended if absent) and the k centering translations of |latt|,
\* each operation of R' in order followed by its k centering copies in table
\* order and, only when latt > 0, after that whole sequence the inversion of
\* each of its elements in the same order; |R'|(1+k) elements when latt < 0
\* and 2|R'|(1+k) when latt > 0.
C19_ExpansionOrder ==
    (pc \in {"expanded", "expanded_list"} /\ sg_call.call = "expanded_symmetry_list") =>
        LET Rp == IdentityAppended(sg_call.symops)
            T == LATTICE_TYPE_TRANSLATIONS[Abs(sg_call.lattice_type)]
            N == Len(Rp) * (1 + Len(T))
        IN  /\ Len(T) = CenteringCount(Abs(sg_call.lattice_type))
            /\ Len(expanded) = IF sg_call.lattice_type > 0 THEN 2 * N ELSE N
            /\ \A n \in 1..N : Matrices(expanded[n]) = CentredElement(Rp, T, n)
            /\ sg_call.lattice_type > 0 =>
                  \A n \in 1..N : Matrices(expanded[N + n]) = InversionOf(expanded[n])

\* a list without the identity, expanded for a centrosymmetric F lattice:
\* the identity was appended and each operation has three copies
C19_Witness ==
    /\ pc = "expanded_list"
    /\ sg_call.lattice_type = 4
    /\ sg_call.symops # <<>>
    /\ Len(symops) = Len(sg_call.symops) + 1
    /\ Len(expanded) = 2 * 4 * Len(symops)
    /\ IsIdentityOp(expanded[4 * Len(sg_call.symops) + 1])

\* the list in ascending order of the integer codes
SortedByCode(list) == SortSeq(list, LAMBDA x, y : integer_code(x) < integer_code(y))

\* C20: reduced_symmetry_list processes the candidates in ascending order of
\* their codes, so the permutations of one operation set give the same
\* reduced list, the list of the ascending input; the result starts with
\* the identity.
C20_PermutationsReduceAlike ==
    (pc = "reduced_list" /\ sg_call.call = "reduced_symmetry_list") =>
        /\ IsIdentityOp(symops[1])
        /\ Codes(symops) = Codes(reduced_symmetry_list(SortedByCode(sg_call.full_symops),
                                                       sg_call.lattice_type))

(***************************************************************************)
(* The unit cell graph                                                     *)
(***************************************************************************)
\* the tolerance a step that fills _uc_graph computes it with: the argument
\* of unit_cell_connectivity, the default when unit_cell_molecules calls it
BondToleranceOf(call) ==
    IF call.call = "unit_cell_connectivity" THEN call.tolerance ELSE BondTolerance

\* the cell offsets of the 3x3x3 block
BlockCells == (-1..1) \X (-1..1) \X (-1..1)

\* cartesian position of row j of table d moved by the cell offset "cell"
ImagePosition(c, d, j, cell) ==
    to_cartesian(c.unit_cell, <<[k \in Range3 |-> d.frac_pos[j][k] + Den * cell[k]]>>)[1]

\* squared distance of row i of table d and the image of row j in "cell"
ImageDist2(c, d, i, j, cell) ==
    Dist2(to_cartesian(c.unit_cell, <<d.frac_pos[i]>>)[1], ImagePosition(c, d, j, cell))

\* the graph "edges" of crystal c, computed with "tolerance", is as stated
GraphAsClaimed(c, edges, tolerance) ==
    \A d \in {c.unit_cell_atom_dict[1]} :
        /\ \A e \in edges :
              /\ e.i \in 1..Len(d.frac_pos) /\ e.j \in 1..Len(d.frac_pos)
              /\ e.i < e.j
              /\ e.cell \in BlockCells
              /\ e.d2 = ImageDist2(c, d, e.i, e.j, e.cell)
              /\ Bonded(e.d2, d.element[e.i], d.element[e.j], tolerance)
              /\ \A f \in edges : (f.i = e.i /\ f.j = e.j) => f = e
              /\ (\A cell \in BlockCells \ {<<0, 0, 0>>} :
                     ~Bonded(ImageDist2(c, d, e.i, e.j, cell),
                             d.element[e.i], d.element[e.j], tolerance))
                   => e.cell = <<0, 0, 0>>
        /\ \A i, j \in 1..Len(d.frac_pos) :
              (/\ i < j
               /\ \E cell \in BlockCells :
                     Bonded(ImageDist2(c, d, i, j, cell), d.element[i], d.element[j],
                            tolerance))
                => \E e \in edges : e.i = i /\ e.j = j

MolRows(m) == {m.unit_cell_atoms[k] : k \in 1..Len(m.unit_cell_atoms)}

\* the position molecule m holds for unit cell row "row"
PositionOf(m, row) ==
    m.positions[CHOOSE k \in 1..Len(m.unit_cell_atoms) : m.unit_cell_atoms[k] = row]

\* the whole cells by which the position of "row" in m is away from its
\* position in the unit cell table d
ShiftOf(c, d, m, row) ==
    [i \in Range3 |->
        ((PositionOf(m, row)[i] \div c.unit_cell.lengths[i]) - d.frac_pos[row][i]) \div Den]

Adjacent(edges, u, v) ==
    \E e \in edges : (e.i = u /\ e.j = v) \/ (e.i = v /\ e.j = u)

\* the edge of the graph between u and v
EdgeOf(edges, u, v) ==
    CHOOSE e \in edges : (e.i = u /\ e.j = v) \/ (e.i = v /\ e.j = u)

\* the order in which the breadth-first search from root reaches the nodes
BfsOrder(edges, root, n) ==
    breadth_first_order(edges, <<root>>, <<root>>, [j \in 1..n |-> <<0, 0, 0>>]).ordered

\* the predecessor of j: the node next to j that the search left first
Pred(edges, ordered, j) ==
    ordered[MinOf({k \in 1..Len(ordered) : Adjacent(edges, ordered[k], j)})]

\* molecule m of crystal c has the shifts and bond vectors of its search tree
TreeShiftsAsClaimed(c, d, edges, m) ==
    \A root \in {MinOf(MolRows(m))} :
        /\ ShiftOf(c, d, m, root) = <<0, 0, 0>>
        /\ \A row \in MolRows(m) :
              PositionOf(m, row) = ImagePosition(c, d, row, ShiftOf(c, d, m, row))
        /\ \A ordered \in {BfsOrder(edges, root, Len(d.frac_pos))} :
              \A child \in MolRows(m) \ {root} :
                 \A parent \in {Pred(edges, ordered, child)} :
                    /\ parent \in MolRows(m)
                    /\ ShiftOf(c, d, m, child) =
                          IF child > parent
                          THEN AddVector(ShiftOf(c, d, m, parent),
                                         EdgeOf(edges, parent, child).cell)
                          ELSE SubVector(ShiftOf(c, d, m, parent),
                                         EdgeOf(edges, parent, child).cell)
                    /\ Dist2(PositionOf(m, child), PositionOf(m, parent))
                          = EdgeOf(edges, parent, child).d2

\* C22: in unit_cell_molecules the root of each molecule has shift zero, the
\* shift of every other atom is that of its breadth-first predecessor plus
\* the cell tag of their edge when the atom has the higher index and minus
\* the tag when it has the lower, and the atom lies at the stored bond
\* length from its predecessor in the unwrapped positions
C22_TreeShifts ==
    (pc = "crystal" /\ crystal.unit_cell_molecules # Unset)
        => \A k \in 1..Len(crystal.unit_cell_molecules[1]) :
              TreeShiftsAsClaimed(crystal, crystal.unit_cell_atom_dict[1],
                                  crystal.uc_graph[1], crystal.unit_cell_molecules[1][k])

\* a molecule with an atom moved into a neighbouring cell by the tag of the
\* edge from its predecessor, and with an atom whose predecessor has the
\* higher index
C22_Witness ==
    /\ pc = "crystal"
    /\ crystal.unit_cell_molecules # Unset
    /\ \E k \in 1..Len(crystal.unit_cell_molecules[1]) :
          \E m \in {crystal.unit_cell_molecules[1][k]} :
             /\ \E row \in MolRows(m) :
                   ShiftOf(crystal, crystal.unit_cell_atom_dict[1], m, row) # <<0, 0, 0>>
             /\ \E row \in MolRows(m) \ {MinOf(MolRows(m))} :
                   row < Pred(crystal.uc_graph[1],
                              BfsOrder(crystal.uc_graph[1], MinOf(MolRows(m)),
                                       Len(crystal.unit_cell_atom_dict[1].frac_pos)),
                              row)

\* no edge of the graph leaves the set of rows
ClosedUnderBonds(edges, rows) ==
    \A e \in edges : (e.i \in rows) <=> (e.j \in rows)

\* the rows hang together: every split of them is crossed by an edge
JoinedByBonds(edges, rows) ==
    \A part \in SUBSET rows :
        (part # {} /\ part # rows)
            => \E e \in edges : \/ (e.i \in part /\ e.j \in rows \ part)
                                \/ (e.j \in part /\ e.i \in rows \ part)

\* C23: the molecules of unit_cell_molecules partition the unit cell atom
\* table: every row is in exactly one molecule, once; two rows are in the
\* same molecule exactly when a path of bonds joins them; and the atom
\* counts of the molecules add up to the number of unit cell atoms
C23_MoleculesPartition ==
    (pc = "crystal" /\ crystal.unit_cell_molecules # Unset)
        => \A mols \in {crystal.unit_cell_molecules[1]} :
            \A n \in {Len(crystal.unit_cell_atom_dict[1].frac_pos)} :
              /\ \A row \in 1..n :
                    Cardinality({k \in 1..Len(mols) : row \in MolRows(mols[k])}) = 1
              /\ \A k \in 1..Len(mols) :
                    /\ MolRows(mols[k]) \subseteq 1..n
                    /\ Cardinality(MolRows(mols[k])) = Len(mols[k].unit_cell_atoms)
                    /\ Len(mols[k].elements) = Len(mols[k].unit_cell_atoms)
                    /\ Len(mols[k].positions) = Len(mols[k].unit_cell_atoms)
                    /\ ClosedUnderBonds(crystal.uc_graph[1], MolRows(mols[k]))
                    /\ JoinedByBonds(crystal.uc_graph[1], MolRows(mols[k]))
              /\ SumSeq([k \in 1..Len(mols) |-> Len(mols[k].elements)]) = n

\* several molecules, one of them with two atoms that are joined by a path
\* of bonds but not by a bond
C23_Witness ==
    /\ pc = "crystal"
    /\ crystal.unit_cell_molecules # Unset
    /\ Len(crystal.unit_cell_molecules[1]) > 1
    /\ \E k \in 1..Len(crystal.unit_cell_molecules[1]) :
          \E u, v \in MolRows(crystal.unit_cell_molecules[1][k]) :
             u # v /\ ~Adjacent(crystal.uc_graph[1], u, v)

\* entry k of every per-atom array of molecule m belongs to the unit cell
\* row m.unit_cell_atoms[k] of table d
ArraysAligned(c, d, m) ==
    /\ Len(m.elements) = Len(m.unit_cell_atoms)
    /\ Len(m.positions) = Len(m.unit_cell_atoms)
    /\ Len(m.asymmetric_unit_atoms) = Len(m.unit_cell_atoms)
    /\ Len(m.asymmetric_unit_labels) = Len(m.unit_cell_atoms)
    /\ Len(m.generator_symop) = Len(m.unit_cell_atoms)
    /\ \A k \in 1..Len(m.unit_cell_atoms) :
          \A row \in {m.unit_cell_atoms[k]} :
             /\ m.elements[k] = d.element[row]
             /\ m.asymmetric_unit_atoms[k] = d.asym_atom[row]
             /\ m.generator_symop[k] = d.symop[row]
             /\ m.asymmetric_unit_labels[k] = c.asymmetric_unit.labels[d.asym_atom[row] + 1]
             /\ \E shift \in {[i \in Range3 |->
                                ((m.positions[k][i] \div c.unit_cell.lengths[i])
                                    - d.frac_pos[row][i]) \div Den]} :
                   m.positions[k] = ImagePosition(c, d, row, shift)

\* C24: the atoms of every molecule of unit_cell_molecules are in ascending
\* order of asymmetric unit index, and element, position, unit cell row,
\* asymmetric unit index, label and generating operation of each entry
\* belong to the same unit cell atom
C24_MoleculeArraysAligned ==
    (pc = "crystal" /\ crystal.unit_cell_molecules # Unset)
        => \A n \in 1..Len(crystal.unit_cell_molecules[1]) :
              \A m \in {crystal.unit_cell_molecules[1][n]} :
                 /\ \A k, l \in 1..Len(m.asymmetric_unit_atoms) :
                       k < l => m.asymmetric_unit_atoms[k] <= m.asymmetric_unit_atoms[l]
                 /\ ArraysAligned(crystal, crystal.unit_cell_atom_dict[1], m)

\* a molecule whose atoms were reordered: its unit cell rows are not
\* ascending, and its atoms differ in element
C24_Witness ==
    /\ pc = "crystal"
    /\ crystal.unit_cell_molecules # Unset
    /\ \E n \in 1..Len(crystal.unit_cell_molecules[1]) :
          \E m \in {crystal.unit_cell_molecules[1][n]} :
             /\ \E k, l \in 1..Len(m.unit_cell_atoms) :
                   k < l /\ m.unit_cell_atoms[k] > m.unit_cell_atoms[l]
             /\ \E k, l \in 1..Len(m.elements) : m.elements[k] # m.elements[l]

(***************************************************************************)
(* The symmetry unique molecules                                           *)
(***************************************************************************)
\* molecule a has a larger fraction of atoms generated by the identity
\* (code 16484) than molecule b
MoreIdentity(a, b) ==
    Cardinality({k \in 1..Len(a.generator_symop) : a.generator_symop[k] = IdentityCode})
            * Len(b.elements)
        > Cardinality({k \in 1..Len(b.generator_symop) : b.generator_symop[k] = IdentityCode})
            * Len(a.elements)

\* the place of molecule k of the list in the order of consideration:
\* after every molecule with a larger fraction and every earlier molecule
\* with the same fraction
RankOf(mols, k) ==
    1 + Cardinality({j \in 1..Len(mols) :
                        \/ MoreIdentity(mols[j], mols[k])
                        \/ (~MoreIdentity(mols[k], mols[j]) /\ j < k)})

\* the molecule considered at place r
Considered(mols, r) == mols[CHOOSE k \in 1..Len(mols) : RankOf(mols, k) = r]

AsymIndices(m) == {m.asymmetric_unit_atoms[k] : k \in 1..Len(m.asymmetric_unit_atoms)}

\* the asymmetric unit indices covered by the accepted places before r
CoveredBefore(mols, accepted, r) ==
    UNION {AsymIndices(Considered(mols, q)) : q \in {x \in accepted : x < r}}

\* "accepted" is the set of places the loop accepts: a place is accepted
\* exactly when its molecule holds an index not covered before it
AcceptedAsClaimed(mols, accepted, natom) ==
    \A r \in 1..Len(mols) :
        (r \in accepted) <=>
            /\ CoveredBefore(mols, accepted, r) # 0..(natom - 1)
            /\ ~(AsymIndices(Considered(mols, r)) \subseteq CoveredBefore(mols, accepted, r))

\* C25: symmetry_unique_molecules considers the unit cell molecules in
\* descending fraction of identity-generated atoms, accepts a molecule
\* exactly when it holds an asymmetric unit index not covered by the
\* molecules accepted before, stops once all indices are covered, and
\* returns the accepted molecules in the order of consideration
C25_UniqueMoleculesGreedy ==
    (pc = "crystal" /\ crystal.symmetry_unique_molecules # Unset)
        => \A mols \in {crystal.unit_cell_molecules[1]} :
            \A unique \in {crystal.symmetry_unique_molecules[1]} :
              \E accepted \in SUBSET (1..Len(mols)) :
                 /\ AcceptedAsClaimed(mols, accepted, nsites(crystal))
                 /\ unique = [k \in 1..Cardinality(accepted) |->
                                Considered(mols, Ascending(accepted)[k])]

\* a molecule was passed over, and the first accepted molecule is not the
\* first molecule of the unit cell list
C25_Witness ==
    /\ pc = "crystal"
    /\ crystal.symmetry_unique_molecules # Unset
    /\ Len(crystal.symmetry_unique_molecules[1]) > 0
    /\ Len(crystal.symmetry_unique_molecules[1]) < Len(crystal.unit_cell_molecules[1])
    /\ crystal.symmetry_unique_molecules[1][1] # crystal.unit_cell_molecules[1][1]

(***************************************************************************)
(* The merge of close sites                                                *)
(***************************************************************************)
\* the generated sites of crystal c as the merge sees them
MergeSites(c) == Translated(GeneratedSites(c))

\* rows a and b of the sites lie within the tolerance of each other
SitesClose(sites, a, b, tolerance_inverse) ==
    Dist2(sites[a], sites[b]) <= (Den * Den) \div (tolerance_inverse * tolerance_inverse)

\* the rows with no lower row within the tolerance
RetainedRows(sites, tolerance_inverse) ==
    {r \in 1..Len(sites) :
        ~\E lower \in 1..(r - 1) : SitesClose(sites, lower, r, tolerance_inverse)}

\* the occupancy of all generated sites together
ExpectedOccupation(c) ==
    Len(c.space_group.symmetry_operations)
        * SumSeq([k \in 1..nsites(c) |-> SourceOccupation(c, k - 1)])

\* the table d keeps exactly the retained rows and their total occupancy is
\* that of all generated sites
MergeAsClaimed(c, d, tolerance_inverse) ==
    \A sites \in {MergeSites(c)} :
        \A kept \in {Ascending(RetainedRows(sites, tolerance_inverse))} :
            /\ d.frac_pos = [k \in 1..Len(kept) |-> sites[kept[k]]]
            /\ SumSeq(d.occupation) = ExpectedOccupation(c)

\* C26: the merge in unit_cell_atoms keeps total occupancy, for every set of
\* close pairs and every order in which they are visited, and keeps a site
\* exactly when no site of lower index is within the tolerance
C26_MergeConservesOccupancy ==
    [][(/\ pc = "crystal"
        /\ crystal.unit_cell_atom_dict = Unset
        /\ crystal'.unit_cell_atom_dict # Unset)
       => MergeAsClaimed(crystal', crystal'.unit_cell_atom_dict[1], ToleranceOf(cr_call'))]_vars

\* the rows are kept as claimed, whatever becomes of the occupancy
RetainedAsClaimed ==
    [][(/\ pc = "crystal"
        /\ crystal.unit_cell_atom_dict = Unset
        /\ crystal'.unit_cell_atom_dict # Unset)
       => \A sites \in {MergeSites(crystal')} :
            \A kept \in {Ascending(RetainedRows(sites, ToleranceOf(cr_call')))} :
               crystal'.unit_cell_atom_dict[1].frac_pos
                   = [k \in 1..Len(kept) |-> sites[kept[k]]]]_vars

\* the molecule of the list that holds unit cell row "row"
MoleculeWith(mols, row) ==
    mols[CHOOSE k \in 1..Len(mols) : row \in MolRows(mols[k])]

\* C27: every bonded pair of a molecule of unit_cell_molecules, not only
\* the pairs of the search tree, agrees with the shifts: for the edge
\* (i, j), i < j, with cell tag c, shift[j] - shift[i] = c
C27_EveryBondMatchesShifts ==
    (pc = "crystal" /\ crystal.unit_cell_molecules # Unset)
        => \A e \in crystal.uc_graph[1] :
              \A m \in {MoleculeWith(crystal.unit_cell_molecules[1], e.i)} :
                 SubVector(ShiftOf(crystal, crystal.unit_cell_atom_dict[1], m, e.j),
                           ShiftOf(crystal, crystal.unit_cell_atom_dict[1], m, e.i))
                    = e.cell

(***************************************************************************)
(* The caches of a Crystal                                                 *)
(***************************************************************************)
\* a cache that is set implies the caches it is computed from
DependencyOrder(c) ==
    /\ c.symmetry_unique_molecules # Unset => c.unit_cell_molecules # Unset
    /\ c.unit_cell_molecules # Unset => c.uc_graph # Unset
    /\ c.uc_graph # Unset => c.unit_cell_atom_dict # Unset

\* every table cached in crystal c is the same in crystal c1
CachedTablesKept(c, c1) ==
    /\ c.unit_cell_atom_dict # Unset => c1.unit_cell_atom_dict = c.unit_cell_atom_dict
    /\ c.uc_graph # Unset => c1.uc_graph = c.uc_graph
    /\ c.unit_cell_molecules # Unset => c1.unit_cell_molecules = c.unit_cell_molecules
    /\ c.symmetry_unique_molecules # Unset
          => c1.symmetry_unique_molecules = c.symmetry_unique_molecules

\* the calls that only ask for atoms around a place
QueryCalls == {"slab", "atoms_in_radius", "molecule_surroundings"}

\* C28: after any sequence of calls the caches of a Crystal are set in
\* dependency order (_symmetry_unique_molecules only with
\* _unit_cell_molecules, that only with _uc_graph, that only with
\* _unit_cell_atom_dict, so that unit_cell_molecules finds the unit cell
\* table set when it reads it), and slab, atoms_in_radius and the
\* surroundings queries leave every cached table as it was
C28_CachesInDependencyOrder ==
    [][pc' = "crystal"
        => /\ DependencyOrder(crystal')
           /\ (pc = "crystal" /\ cr_call'.call \in QueryCalls)
                => /\ CachedTablesKept(crystal, crystal')
                   /\ crystal'.asymmetric_unit = crystal.asymmetric_unit
                   /\ crystal'.unit_cell = crystal.unit_cell
           /\ (pc = "crystal" /\ cr_call'.call \in {"slab", "atoms_in_radius"})
                => /\ crystal'.uc_graph = crystal.uc_graph
                   /\ crystal'.unit_cell_molecules = crystal.unit_cell_molecules
                   /\ crystal'.symmetry_unique_molecules = crystal.symmetry_unique_molecules
           /\ cr_call'.call = "unit_cell_molecules"
                => crystal'.unit_cell_atom_dict # Unset]_vars

\* slab was called on a crystal whose unit cell table had been computed with
\* the tolerance 0.1 and merged rows, and whose molecules were cached
C28_Witness ==
    /\ pc = "crystal"
    /\ cr_call.call = "slab"
    /\ crystal.symmetry_unique_molecules # Unset
    /\ Len(returned.value.frac_pos) = 3 * Len(crystal.unit_cell_atom_dict[1].frac_pos)
    /\ Len(crystal.unit_cell_atom_dict[1].frac_pos)
          < nsites(crystal) * Len(crystal.space_group.symmetry_operations)
    /\ ~NoSitesWithin(crystal, 10)
    /\ NoSitesWithin(crystal, ToleranceInverse)

(***************************************************************************)
(* The caller's list of operations                                         *)
(***************************************************************************)
\* two lists hold the same operations in the same order; the codes an
\* operation caches are not part of it
SameOperations(a, b) ==
    /\ Len(a) = Len(b)
    /\ \A k \in 1..Len(a) :
          /\ a[k].rotation = b[k].rotation
          /\ a[k].translation = b[k].translation

\* C29: expanded_symmetry_list, and from_symmetry_operations with or
\* without expand_latt, leave the list of operations the caller handed in
\* as it was, same length and same elements, whether or not the identity
\* was in it
C29_InputListUnchanged ==
    (/\ pc \in {"expanded_list", "identified", "raised"}
     /\ sg_call.call \in {"expanded_symmetry_list", "from_symmetry_operations"})
        => SameOperations(symops, sg_call.symops)

\* the list after the call is the list before it with the identity at its
\* end when the identity was missing, and the same list otherwise
InputListGainsIdentity ==
    (/\ pc \in {"expanded_list", "identified", "raised"}
     /\ sg_call.call \in {"expanded_symmetry_list", "from_symmetry_operations"})
        => \/ SameOperations(symops, sg_call.symops)
           \/ /\ ~\E k \in 1..Len(sg_call.symops) : IsIdentityOp(sg_call.symops[k])
              /\ SameOperations(SubSeq(symops, 1, Len(symops) - 1), sg_call.symops)
              /\ IsIdentityOp(symops[Len(symops)])

\* with the identity in the list, the list stays as it was
InputListWithIdentityUnchanged ==
    (/\ pc \in {"expanded_list", "identified", "raised"}
     /\ sg_call.call \in {"expanded_symmetry_list", "from_symmetry_operations"}
     /\ \E k \in 1..Len(sg_call.symops) : IsIdentityOp(sg_call.symops[k]))
        => SameOperations(symops, sg_call.symops)

(***************************************************************************)
(* Cells with three right angles                                           *)
(***************************************************************************)
\* C30: a unit cell whose three angles are all 90 degrees is classified
\* cubic, tetragonal or orthorhombic, whichever of its lengths are equal,
\* and never monoclinic or triclinic
C30_RightAnglesClassified ==
    (unitcell # None /\ orthogonal(unitcell))
        => unitcell.cell_type \in {"cubic", "tetragonal", "orthorhombic"}

\* a cell with three right angles is never classified monoclinic, and it is
\* classified triclinic exactly when two of its lengths are close and it is
\* neither cubic nor tetragonal
RightAnglesNeverMonoclinic ==
    (unitcell # None /\ orthogonal(unitcell))
        => /\ unitcell.cell_type # "monoclinic"
           /\ (unitcell.cell_type = "triclinic")
                <=> (~abc_different(unitcell) /\ ~is_cubic(unitcell)
                        /\ ~is_tetragonal(unitcell))

\* a cell with three right angles and a = c, b two Angstrom longer, was
\* classified triclinic
EqualAandCTriclinic ==
    /\ unitcell # None
    /\ unitcell.angles = <<RightAngle, RightAngle, RightAngle>>
    /\ unitcell.lengths = <<FiveAngstrom, 7 * EyeLength, FiveAngstrom>>
    /\ unitcell.cell_type = "triclinic"

====
